---------------------------- MODULE Spec2Model ----------------------------
(***************************************************************************)
(* Verification model of the circadian lending ML services:                *)
(*   - api/ml_server.py: MLPredictor (model bundle, chronotype inference,  *)
(*     serving-time feature engineering) and the rate endpoint;            *)
(*   - models/pattern_recognizer.py: training-time feature engineering;    *)
(*   - data-generation/van_der_pol_generator.py: population generation     *)
(*     and the oscillation of one subject;                                 *)
(*   - data-generation/synthetic_user_patterns.py: the four behavioural    *)
(*     transforms of BehavioralPatternEnhancer.                            *)
(*                                                                         *)
(* Real numbers are exact rationals [n |-> numerator, d |-> denominator]   *)
(* in lowest terms with d > 0; [n |-> 0, d |-> 0] is NaN.  numpy's float64 *)
(* rounding is not modelled: two values equal here are computed by the     *)
(* same real-number expression.                                            *)
(***************************************************************************)
EXTENDS Integers, Sequences, FiniteSets, TLC

VARIABLES
    predictor,      \* MLPredictor fields after __init__ (ml_server.py:37-42)
    response,       \* last HTTP response of the server: [status, body]
    result,         \* last value returned by predict_chronotype
    calls,          \* external capabilities invoked by the last inference
    activity_array, \* the window built by the last inference (line 82-89)
    request,        \* the request being answered: route, body, collaborators
    pattern,        \* feature specification: the input window
    serve_features, \* create_engineered_features(pattern)
    train_features, \* create_time_based_features([pattern])[0]
    pop,            \* population generation: locals of generate_population_data
    user_data,      \* enhancement: the subject's dict handed to the transforms
    draws,          \* enhancement: the values np.random yields to each call
    raised,         \* enhancement: the exception that ended it ("" if none)
    workers,        \* concurrent inference: each request thread's locals
    heap,           \* enhance_population_data: its names and the dicts they
                    \* refer to
    loop            \* add_social_jetlag: the locals of its for loop

vars == <<predictor, response, result, calls, activity_array, request,
          pattern, serve_features, train_features, pop, user_data, draws,
          raised, workers, heap, loop>>

serverVars == <<predictor, response, result, calls, activity_array, request>>
featVars == <<pattern, serve_features, train_features>>
enhVars == <<user_data, draws, raised, heap, loop>>
concVars == <<workers>>

-----------------------------------------------------------------------------
(* Bounds of the model *)

\* longest short pattern drawn as an input (covers 0..24 and two tail samples)
MaxLen == 26
\* patterns of length PadLen-Near .. PadLen+Near are drawn too
Near == 1
\* largest population size generated, besides the default one
MaxUsers == 9
\* most days of activity a subject handed to the enhancement carries
MaxDays == 20
\* most days of one simulated oscillation followed hour by hour
MaxSimDays == 7

(* Program constants *)

\* hours of the feature window
Window == 24
\* length the encoder expects
PadLen == 720
\* width of the fallback representation
FallbackDim == 32
\* confidence used when inference does not succeed, in percent (0.5)
DefaultConfidence == 50
\* 10000, the neutral multiplier and each factor of the divisor
Neutral == 10000
\* n_users default
DefaultUsers == 1000
\* days default
DefaultDays == 30

-----------------------------------------------------------------------------
(* Exact rational arithmetic *)

Abs(x) == IF x < 0 THEN -x ELSE x
Min(a, b) == IF a <= b THEN a ELSE b

RECURSIVE Gcd(_, _)
Gcd(a, b) == IF b = 0 THEN a ELSE Gcd(b, a % b)

NaN == [n |-> 0, d |-> 0]
IsNaN(x) == x.d = 0

Rat(n, d) ==
    IF d = 0 THEN NaN
    ELSE LET g == Gcd(Abs(n), Abs(d))
             s == IF d < 0 THEN -1 ELSE 1
         IN  [n |-> s * (n \div g), d |-> s * (d \div g)]

Zero == Rat(0, 1)
Int2Rat(k) == Rat(k, 1)

RAdd(x, y) ==
    IF IsNaN(x) \/ IsNaN(y) THEN NaN
    ELSE LET g == Gcd(x.d, y.d)
         IN  Rat(x.n * (y.d \div g) + y.n * (x.d \div g), (x.d \div g) * y.d)

RNeg(x) == IF IsNaN(x) THEN NaN ELSE [n |-> -x.n, d |-> x.d]
RSub(x, y) == RAdd(x, RNeg(y))

RMul(x, y) ==
    IF IsNaN(x) \/ IsNaN(y) THEN NaN
    ELSE LET g1 == Gcd(Abs(x.n), y.d)
             g2 == Gcd(Abs(y.n), x.d)
         IN  Rat((x.n \div g1) * (y.n \div g2), (x.d \div g2) * (y.d \div g1))

RDivInt(x, k) == IF IsNaN(x) \/ k = 0 THEN NaN ELSE RMul(x, Rat(1, k))

\* x < y on non-NaN rationals; every comparison with NaN is false
RLess(x, y) == ~IsNaN(x) /\ ~IsNaN(y) /\ x.n * y.d < y.n * x.d

\* the sum of s[a..b], by halves (the recursion stays shallow on long windows)
RECURSIVE RSumRange(_, _, _)
RSumRange(s, a, b) ==
    IF a > b THEN Zero
    ELSE IF a = b THEN s[a]
    ELSE LET m == (a + b) \div 2
         IN  RAdd(RSumRange(s, a, m), RSumRange(s, m + 1, b))

RSum(s) == RSumRange(s, 1, Len(s))

\* square root, kept symbolic: the root of 0 is 0
Sqrt(x) ==
    IF IsNaN(x) THEN NaN
    ELSE IF x.n = 0 THEN Zero
    ELSE [sqrt |-> x]

\* 1e-6
Epsilon == Rat(1, 1000000)

\* x / y kept as the quotient of two exact values (numerators would leave
\* the integer range); NaN when either side is NaN
Quot(x, y) == IF IsNaN(x) \/ IsNaN(y) THEN NaN ELSE [num |-> x, den |-> y]

-----------------------------------------------------------------------------
(* numpy helpers on sequences of rationals (0-based indices in the code,   *)
(* 1-based positions here)                                                 *)

\* s[a:b]
Slice(s, a, b) == SubSeq(s, a + 1, Min(b, Len(s)))

\* np.mean: NaN on an empty sequence
NpMean(s) == IF Len(s) = 0 THEN NaN ELSE RDivInt(RSum(s), Len(s))

\* np.std: population standard deviation, sqrt(mean(|x - mean|^2))
NpStd(s) ==
    IF Len(s) = 0 THEN NaN
    ELSE LET m == NpMean(s)
             dev == [i \in 1..Len(s) |-> RMul(RSub(s[i], m), RSub(s[i], m))]
         IN  Sqrt(NpMean(dev))

\* np.argmax / np.argmin: the first index of a largest / smallest entry
\* (called on non-empty sequences only; on an empty one numpy raises)
NpArgmax(s) ==
    CHOOSE i \in 0..(Len(s) - 1) :
        /\ \A j \in 0..(Len(s) - 1) : ~RLess(s[i + 1], s[j + 1])
        /\ \A j \in 0..(i - 1) : RLess(s[j + 1], s[i + 1])

NpArgmin(s) ==
    CHOOSE i \in 0..(Len(s) - 1) :
        /\ \A j \in 0..(Len(s) - 1) : ~RLess(s[j + 1], s[i + 1])
        /\ \A j \in 0..(i - 1) : RLess(s[i + 1], s[j + 1])

\* np.pad(s, (0, k), 'constant', constant_values=v)
NpPad(s, k, v) == s \o [i \in 1..k |-> v]

\* np.zeros(k)
NpZeros(k) == [i \in 1..k |-> Zero]

Returned(v) == [raised |-> "", value |-> v]
Raised(e) == [raised |-> e, value |-> <<>>]

-----------------------------------------------------------------------------
(* Serving-time feature engineering: MLPredictor.create_engineered_features *)

ServeFeatureList(pattern_24h) ==
    LET peak_hour == NpArgmax(pattern_24h)
        trough_hour == NpArgmin(pattern_24h)
        mean_activity == NpMean(pattern_24h)
        std_activity == NpStd(pattern_24h)
        morning_activity == NpMean(Slice(pattern_24h, 6, 12))
        evening_activity == NpMean(Slice(pattern_24h, 18, 24))
        night_activity == NpMean(Slice(pattern_24h, 0, 6))
    IN  << Int2Rat(peak_hour), Int2Rat(trough_hour), mean_activity, std_activity,
           morning_activity, evening_activity, night_activity,
           Quot(morning_activity, RAdd(evening_activity, Epsilon)),
           Rat(peak_hour - 12, 12) >>

\* faulty variant: the short window is padded with zeros instead of its mean
ServeWindow_PadZero(p) ==
    LET pattern_24h == IF Len(p) >= Window THEN Slice(p, 0, Window) ELSE p
    IN  IF Len(pattern_24h) < Window
        THEN NpPad(pattern_24h, Window - Len(pattern_24h), Zero)
        ELSE pattern_24h

\* faulty variant: the window is cut one sample late (pattern[:25])
ServeWindow_OffByOne(p) ==
    LET pattern_24h == IF Len(p) >= Window THEN Slice(p, 0, Window + 1) ELSE p
    IN  IF Len(pattern_24h) < Window
        THEN NpPad(pattern_24h, Window - Len(pattern_24h), NpMean(pattern_24h))
        ELSE pattern_24h

\* pattern[:24] if len(pattern) >= 24 else pattern, then padded with its mean
ServeWindow(p) ==
    LET pattern_24h == IF Len(p) >= Window THEN Slice(p, 0, Window) ELSE p
    IN  IF Len(pattern_24h) < Window
        THEN NpPad(pattern_24h, Window - Len(pattern_24h), NpMean(pattern_24h))
        ELSE pattern_24h

create_engineered_features(p) ==
    IF Len(p) = 0 THEN Returned(NpZeros(9))
    ELSE Returned(ServeFeatureList(ServeWindow(p)))

-----------------------------------------------------------------------------
(* Training-time feature engineering:                                      *)
(* ChronotypeClassifier.create_time_based_features, one row of X           *)

TrainFeatureList(pattern_24h) ==
    LET peak_hour == NpArgmax(pattern_24h)
        trough_hour == NpArgmin(pattern_24h)
        mean_activity == NpMean(pattern_24h)
        std_activity == NpStd(pattern_24h)
        morning_activity == NpMean(Slice(pattern_24h, 6, 12))
        evening_activity == NpMean(Slice(pattern_24h, 18, 24))
        night_activity == NpMean(Slice(pattern_24h, 0, 6))
    IN  << Int2Rat(peak_hour), Int2Rat(trough_hour), mean_activity, std_activity,
           morning_activity, evening_activity, night_activity,
           Quot(morning_activity, RAdd(evening_activity, Epsilon)),
           Rat(peak_hour - 12, 12) >>

\* pattern[:24] if len(pattern) >= 24 else pattern; no padding
TrainWindow(p) == IF Len(p) >= Window THEN Slice(p, 0, Window) ELSE p

\* np.argmax of an empty row raises ValueError
create_time_based_features(p) ==
    IF Len(TrainWindow(p)) = 0 THEN Raised("ValueError")
    ELSE Returned(TrainFeatureList(TrainWindow(p)))

-----------------------------------------------------------------------------
(* Input windows.  A window of n samples is level lv[b] on block b (hours  *)
(* 0-5, 6-11, 12-17, 18-23; level 1 from hour 24 on), except for one       *)
(* optional spike sample sp at position pos (pos = 0: no spike).           *)

Levels == {1, 2}
Spikes == {0, 3}
Samples == Levels \cup Spikes

\* 1-based positions of the spike: none, and the first and last hour of the
\* blocks and of the tail
SpikePositions == {0, 1, 6, 7, 12, 18, 19, 24, 25}

Block(i) == ((i - 1) \div 6) + 1

PatternOf(n, lv, pos, sp) ==
    [i \in 1..n |-> Int2Rat(IF i = pos THEN sp
                            ELSE IF i > Window THEN 1 ELSE lv[Block(i)])]

Patterns(lens) ==
    { PatternOf(n, lv, pos, sp) :
        n \in lens, lv \in [1..4 -> Levels], pos \in SpikePositions, sp \in Spikes }

Pending == [raised |-> "pending", value |-> <<>>]

Idle == [pc |-> "idle"]

-----------------------------------------------------------------------------
(* Specification SpecFeat: both feature functions applied to one window    *)

InitFeat ==
    /\ pattern \in Patterns(0..MaxLen)
    /\ serve_features = Pending
    /\ train_features = Pending
    /\ predictor = Idle
    /\ response = Idle
    /\ result = Pending
    /\ calls = {}
    /\ activity_array = <<>>
    /\ request = Idle
    /\ pop = Idle
    /\ user_data = Idle
    /\ draws = Idle
    /\ raised = ""
    /\ workers = <<>>
    /\ heap = Idle
    /\ loop = Idle

\* inference call site: self.create_engineered_features(...)
ServeExtract ==
    /\ serve_features = Pending
    /\ serve_features' = create_engineered_features(pattern)
    /\ UNCHANGED <<pattern, train_features, serverVars, pop, enhVars, concVars>>

\* corpus-build call site: self.create_time_based_features(X), X = [pattern]
TrainExtract ==
    /\ train_features = Pending
    /\ train_features' = create_time_based_features(pattern)
    /\ UNCHANGED <<pattern, serve_features, serverVars, pop, enhVars, concVars>>

NextFeat == ServeExtract \/ TrainExtract

SpecFeat == InitFeat /\ [][NextFeat]_vars

-----------------------------------------------------------------------------
(* JSON values of a request body *)

JInt(v) == [t |-> "int", v |-> v]
JList(v) == [t |-> "list", items |-> v]
JNull == [t |-> "null"]
JStr == [t |-> "str"]
JMissing == [t |-> "missing"]

-----------------------------------------------------------------------------
(* MLPredictor.load_models: the bundle left by the constructor.  fs is the *)
(* environment at start-up:                                                *)
(*   autoencoder: "import_error" (circadian_autoencoder or its class is    *)
(*       unavailable), "no_info" (load_model returns False), "loaded",      *)
(*       "raise_early" / "raise_late" (load_model raises before / after it *)
(*       has set the encoder);                                             *)
(*   classifier: "missing" (a file does not exist), "loaded",              *)
(*       "raise_model" / "raise_scaler" (loading the model / the scaler    *)
(*       raises);                                                          *)
(*   scaler_width: the number of features the stored scaler was fitted on. *)

NoModels ==
    [autoencoder |-> "None", encoder |-> FALSE, encoding_dim |-> FallbackDim,
     classifier_model |-> FALSE, classifier_scaler |-> FALSE, scaler_width |-> 0,
     models_loaded |-> FALSE]

load_models(fs) ==
    LET a0 == NoModels
        a1 == [a0 EXCEPT !.autoencoder = "obj"]
        a2 == [a1 EXCEPT !.encoder = fs.autoencoder \in {"loaded", "raise_late"}]
    IN  IF fs.autoencoder = "import_error" THEN a0
        ELSE IF fs.autoencoder \in {"raise_early", "raise_late"} THEN a2
        ELSE IF fs.classifier = "missing" THEN a2
        ELSE IF fs.classifier = "raise_model" THEN a2
        ELSE IF fs.classifier = "raise_scaler"
             THEN [a2 EXCEPT !.classifier_model = TRUE]
        ELSE [a2 EXCEPT !.classifier_model = TRUE,
                        !.classifier_scaler = TRUE,
                        !.scaler_width = fs.scaler_width,
                        !.models_loaded = TRUE]

\* pattern_recognizer.py, prepare_data (lines 118-126): the number of
\* columns of combined_features the scaler is fitted on; encoder_loaded is
\* the outcome of load_model in extract_autoencoder_features (lines 64-74)
TrainingWidth(encoder_loaded, encoding_dim) ==
    IF encoder_loaded THEN encoding_dim + 9 ELSE 9

\* widths the training pipeline fits the scaler on:
\* encoder features + 9 engineered features, or the 9 engineered features
ScalerWidths == {FallbackDim + 9, 9}

StartUps ==
    [autoencoder : {"import_error", "no_info", "loaded", "raise_early", "raise_late"},
     classifier : {"missing", "loaded", "raise_model", "raise_scaler"},
     scaler_width : ScalerWidths]

-----------------------------------------------------------------------------
(* External collaborators during one inference.  env.fails names the       *)
(* capability that raises during this call ("none": none does);            *)
(* env.prediction is the classifier's output prediction[0], in percent.    *)

Predictions == { <<70, 20, 10>>, <<90, 5, 5>>, <<20, 60, 20>>, <<10, 30, 60>> }

Env(f, pr) == [fails |-> f, prediction |-> pr]

Envs == { Env("none", pr) : pr \in Predictions }
        \cup { Env(f, <<70, 20, 10>>) : f \in {"encoder", "scaler", "classifier"} }

\* np.argmax over the three class probabilities
ArgmaxProb(pr) ==
    CHOOSE i \in 0..2 :
        /\ \A j \in 0..2 : pr[j + 1] <= pr[i + 1]
        /\ \A j \in 0..(i - 1) : pr[j + 1] < pr[i + 1]

MaxProb(pr) == pr[ArgmaxProb(pr) + 1]

chronotype_names == <<"Early", "Intermediate", "Late">>

\* the error result of predict_chronotype
Failure(e) == [error |-> e, chronotype |-> 1, success |-> FALSE]

\* what one call of predict_chronotype yields: what it returned (or the
\* exception that left it), the window it built and the capabilities it
\* invoked
Outcome(r, arr, cs) == [result |-> r, activity_array |-> arr, calls |-> cs]

\* faulty variant: a short pattern is padded with zeros
PadOrTruncate_PadZero(activity_pattern) ==
    IF Len(activity_pattern) < PadLen
    THEN NpPad(activity_pattern, PadLen - Len(activity_pattern), Zero)
    ELSE IF Len(activity_pattern) > PadLen
    THEN Slice(activity_pattern, 0, PadLen)
    ELSE activity_pattern

\* lines 84-89: pad with the mean to 720 or truncate to the first 720
PadOrTruncate(activity_pattern) ==
    IF Len(activity_pattern) < PadLen
    THEN NpPad(activity_pattern, PadLen - Len(activity_pattern),
               NpMean(activity_pattern))
    ELSE IF Len(activity_pattern) > PadLen
    THEN Slice(activity_pattern, 0, PadLen)
    ELSE activity_pattern

\* lines 91-96: whether the learned encoder is used
UsesEncoder(self) == self.autoencoder # "None" /\ self.encoder

\* lines 91-102: the number of columns of combined_features
ServingWidth(self) ==
    (IF UsesEncoder(self) THEN self.encoding_dim ELSE FallbackDim) + 9

\* lines 91-119: the steps after the window is built, given the window arr
\* and the outcome of create_engineered_features; Returned(dict), or
\* Raised(e) at the statement that raises
PredictSteps(self, env, arr, engineered) ==
    LET learned == UsesEncoder(self)
        c1 == IF learned THEN {"encoder"} ELSE {"fallback"}
        width == ServingWidth(self)
    IN  IF learned /\ env.fails = "encoder"
        THEN Outcome(Raised("RuntimeError"), arr, c1)
        ELSE IF env.fails = "scaler"
        THEN Outcome(Raised("RuntimeError"), arr, c1 \cup {"scaler"})
        \* StandardScaler.transform rejects a width it was not fitted on
        ELSE IF engineered.raised # "" \/ width # self.scaler_width
        THEN Outcome(Raised("ValueError"), arr, c1 \cup {"scaler"})
        ELSE IF env.fails = "classifier"
        THEN Outcome(Raised("RuntimeError"), arr, c1 \cup {"scaler", "classifier"})
        ELSE Outcome(Returned([chronotype |-> ArgmaxProb(env.prediction),
                               chronotype_name |->
                                   chronotype_names[ArgmaxProb(env.prediction) + 1],
                               confidence |-> MaxProb(env.prediction),
                               success |-> TRUE]),
                     arr, c1 \cup {"scaler", "classifier"})

\* lines 81-119, the body of the try block
PredictBody(self, activity_pattern, env) ==
    IF activity_pattern.t # "list"
    THEN \* len() / np.mean() of a value that is no list of numbers
         Outcome(Raised("TypeError"), <<>>, {})
    ELSE PredictSteps(self, env, PadOrTruncate(activity_pattern.items),
             create_engineered_features(
                 IF Len(activity_pattern.items) >= Window
                 THEN Slice(activity_pattern.items, 0, Window)
                 ELSE activity_pattern.items))

\* faulty variant: the handler catches ValueError only
ExceptClause_ValueErrorOnly(b) ==
    IF b.result.raised = "ValueError"
    THEN Outcome(Returned(Failure(b.result.raised)), b.activity_array, b.calls)
    ELSE b

\* lines 121-123: except Exception turns whatever the try block raised into
\* the error result
ExceptClause(b) ==
    IF b.result.raised # ""
    THEN Outcome(Returned(Failure(b.result.raised)), b.activity_array, b.calls)
    ELSE b

\* MLPredictor.predict_chronotype(activity_pattern), activity_pattern a JSON
\* value: the guard, the try block and its except clause
predict_chronotype(self, activity_pattern, env) ==
    IF ~self.models_loaded
    THEN Outcome(Returned(Failure("Models not loaded")), <<>>, {})
    ELSE ExceptClause(PredictBody(self, activity_pattern, env))

-----------------------------------------------------------------------------
(* The rate endpoint: calculate_circadian_rate *)

Response(status, body) == [status |-> status, body |-> body]

\* faulty variant: the night discount runs one hour late (2..7)
HourlyMultiplier_LateNight(current_hour) ==
    IF current_hour.t # "int" THEN Neutral
    ELSE IF current_hour.v \in 2..7 THEN 8500
    ELSE IF current_hour.v \in 9..17 THEN 11000
    ELSE IF current_hour.v \in {22, 23, 0, 1} THEN 9000
    ELSE Neutral

\* hourly_multipliers.get(current_hour, 10000); current_hour is hashable
HourlyMultiplier(current_hour) ==
    IF current_hour.t # "int" THEN Neutral
    ELSE IF current_hour.v \in 2..6 THEN 8500
    ELSE IF current_hour.v \in 9..13 THEN 11000
    ELSE IF current_hour.v \in 14..17 THEN 11000
    ELSE IF current_hour.v \in {22, 23, 0, 1} THEN 9000
    ELSE Neutral

\* chronotype_adjustments.get(chronotype, 10000)
BehaviorMultiplier(chronotype) ==
    IF chronotype = 0 THEN 9500
    ELSE IF chronotype = 1 THEN Neutral
    ELSE IF chronotype = 2 THEN 10500
    ELSE Neutral

\* faulty variant: the rate is weighted by the confidence
AdjustedRate_ConfidenceWeighted(base_rate, hourly, behavior, confidence) ==
    LET p == base_rate * hourly
        hi == p \div Neutral
        lo == p % Neutral
    IN  (((hi * behavior + ((lo * behavior) \div Neutral)) \div Neutral)
            * confidence) \div 100

\* (base_rate * hourly * behavior) // (10000 * 10000) on Python's unbounded
\* integers.  The product is formed in two limbs of base 10000, so that no
\* intermediate value leaves the model checker's 32-bit range; \div and //
\* both round towards minus infinity.
AdjustedRate(base_rate, hourly, behavior, confidence) ==
    LET p == base_rate * hourly
        hi == p \div Neutral
        lo == p % Neutral
    IN  (hi * behavior + ((lo * behavior) \div Neutral)) \div Neutral

\* lines 213-244: the multipliers, the rate and the response
RateFromLabel(base_rate, current_hour, chronotype, chronotype_name, confidence) ==
    LET hourly_multiplier == HourlyMultiplier(current_hour)
        behavior_multiplier == BehaviorMultiplier(chronotype)
    IN  IF current_hour.t = "list"
        THEN Response(500, [error |-> "TypeError: unhashable type"])
        ELSE IF base_rate.t # "int"
        THEN Response(500, [error |-> "TypeError: unsupported operand"])
        ELSE Response(200,
                 [adjusted_rate |-> AdjustedRate(base_rate.v, hourly_multiplier,
                                                 behavior_multiplier, confidence),
                  base_rate |-> base_rate.v,
                  chronotype |-> chronotype,
                  chronotype_name |-> chronotype_name,
                  confidence |-> confidence,
                  hourly_multiplier |-> hourly_multiplier,
                  behavior_multiplier |-> behavior_multiplier,
                  current_hour |-> current_hour])

\* faulty variant: chronotype and confidence are read without looking at success;
\* a failure result has no confidence (KeyError)
RateResponse_NoSuccessCheck(base_rate, current_hour, chronotype_result) ==
    IF ~chronotype_result.success
    THEN Response(500, [error |-> "KeyError: confidence"])
    ELSE RateFromLabel(base_rate, current_hour, chronotype_result.chronotype,
                chronotype_result.chronotype_name, chronotype_result.confidence)

\* faulty variant: a failed inference is priced with the Early label
RateResponse_DefaultEarly(base_rate, current_hour, chronotype_result) ==
    IF ~chronotype_result.success
    THEN RateFromLabel(base_rate, current_hour, 0, "Early", DefaultConfidence)
    ELSE RateFromLabel(base_rate, current_hour, chronotype_result.chronotype,
                chronotype_result.chronotype_name, chronotype_result.confidence)

\* lines 206-244: the response built from the inference result
RateResponse(base_rate, current_hour, chronotype_result) ==
    IF ~chronotype_result.success
    THEN RateFromLabel(base_rate, current_hour, 1, "Intermediate", DefaultConfidence)
    ELSE RateFromLabel(base_rate, current_hour, chronotype_result.chronotype,
                chronotype_result.chronotype_name, chronotype_result.confidence)

required_fields == <<"base_rate", "current_hour", "user_activity">>

\* the first required field the body lacks, or "" when it has all three
FirstMissing(data) ==
    IF data.base_rate = JMissing THEN "base_rate"
    ELSE IF data.current_hour = JMissing THEN "current_hour"
    ELSE IF data.user_activity = JMissing THEN "user_activity"
    ELSE ""

NoInference == Outcome(Pending, <<>>, {})

\* lines 206-247: the response, given what predict_chronotype did
RateReply(data, inf) ==
    IF inf.result.raised # ""
    THEN \* the handler's own except Exception clause
         [response |-> Response(500, [error |-> inf.result.raised]),
          inference |-> inf]
    ELSE [response |-> RateResponse(data.base_rate, data.current_hour,
                                    inf.result.value),
          inference |-> inf]

\* the handler: its response and what its call of predict_chronotype did
RateHandler(self, data, env) ==
    IF data.t = "null"
    THEN [response |-> Response(500, [error |-> "TypeError: not iterable"]),
          inference |-> NoInference]
    ELSE IF FirstMissing(data) # ""
    THEN [response |-> Response(400, [error |-> FirstMissing(data)]),
          inference |-> NoInference]
    ELSE RateReply(data, predict_chronotype(self, data.user_activity, env))

\* lines 178-186: the response, given what predict_chronotype did
PredictReply(inf) ==
    IF inf.result.raised # ""
    THEN [response |-> Response(500, [error |-> inf.result.raised]),
          inference |-> inf]
    ELSE [response |-> Response(200, inf.result.value), inference |-> inf]

\* the /predict_chronotype handler
PredictHandler(self, data, env) ==
    IF data.t = "null"
    THEN [response |-> Response(500, [error |-> "TypeError: not iterable"]),
          inference |-> NoInference]
    ELSE IF data.activity_pattern = JMissing
    THEN [response |-> Response(400, [error |-> "Missing activity_pattern"]),
          inference |-> NoInference]
    ELSE IF data.activity_pattern.t # "list" \/ Len(data.activity_pattern.items) = 0
    THEN [response |-> Response(400, [error |-> "Invalid activity_pattern format"]),
          inference |-> NoInference]
    ELSE PredictReply(predict_chronotype(self, data.activity_pattern, env))

-----------------------------------------------------------------------------
(* Request bodies drawn by the server specification *)

BaseRates == {-10001, 0, 10000, 12345}
Hours == -1..24

UniformLevel == [b \in 1..4 |-> 1]
MorningLevel == [b \in 1..4 |-> IF b = 2 THEN 2 ELSE 1]

ServerLens == {0, 1, 10, Window} \cup ((PadLen - Near)..(PadLen + Near))

ServerPatterns ==
    { PatternOf(n, lv, pos, 3) :
        n \in ServerLens, lv \in {UniformLevel, MorningLevel}, pos \in {0, 12} }

RateLens == {0, 10, PadLen + Near}

RateBody(b, h, a) ==
    [t |-> "object", base_rate |-> b, current_hour |-> h, user_activity |-> a]

\* every base rate at every hour with one activity list, and every kind of
\* activity at a night hour and a peak hour
RateBodies ==
    { RateBody(b, h, JList(PatternOf(10, MorningLevel, 0, 3))) :
        b \in {JInt(x) : x \in BaseRates} \cup {JNull, JStr, JMissing},
        h \in {JInt(x) : x \in Hours} \cup {JStr, JList(<<>>), JMissing} }
    \cup
    { RateBody(JInt(10000), JInt(h), a) :
        h \in {3, 10},
        a \in {JList(PatternOf(n, MorningLevel, 0, 3)) : n \in RateLens}
              \cup {JNull, JMissing} }
    \cup {[t |-> "null"]}

PredictBodies ==
    [t : {"object"},
     activity_pattern : {JList(q) : q \in ServerPatterns} \cup {JNull, JMissing}]
    \cup {[t |-> "null"]}

\* sample_pattern of the /test endpoint, in tenths
sample_pattern ==
    [i \in 1..24 |->
        Rat(<<3, 2, 1, 1, 2, 4, 7, 9, 8, 9, 8, 7,
              6, 7, 8, 7, 6, 5, 4, 3, 2, 2, 3, 3>>[i], 10)]

-----------------------------------------------------------------------------
(* Specification Spec: the server.  The predictor is constructed once; the *)
(* server then answers one request at a time.                              *)

Init ==
    /\ predictor \in {load_models(fs) : fs \in StartUps}
    /\ response = Idle
    /\ request = Idle
    /\ result = Pending
    /\ calls = {}
    /\ activity_array = <<>>
    /\ pattern = <<>>
    /\ serve_features = Pending
    /\ train_features = Pending
    /\ pop = Idle
    /\ user_data = Idle
    /\ draws = Idle
    /\ raised = ""
    /\ workers = <<>>
    /\ heap = Idle
    /\ loop = Idle

Answer(route, data, h) ==
    /\ response = Idle
    /\ request' = [route |-> route, data |-> data]
    /\ response' = h.response
    /\ result' = h.inference.result
    /\ calls' = h.inference.calls
    /\ activity_array' = h.inference.activity_array
    /\ UNCHANGED <<predictor, featVars, pop, enhVars, concVars>>

health_check ==
    /\ response = Idle
    /\ request' = [route |-> "/health"]
    /\ response' = Response(200, [status |-> "healthy",
                                  models_loaded |-> predictor.models_loaded,
                                  version |-> "1.0.0"])
    /\ UNCHANGED <<predictor, result, calls, activity_array, featVars, pop, enhVars, concVars>>

predict_chronotype_endpoint ==
    \E data \in PredictBodies, env \in Envs :
        Answer("/predict_chronotype", data, PredictHandler(predictor, data, env))

calculate_circadian_rate ==
    \E data \in RateBodies, env \in Envs :
        Answer("/calculate_circadian_rate", data, RateHandler(predictor, data, env))

\* lines 257-266: the response of /test, given what predict_chronotype did
TestReply(inf) ==
    [response |->
        IF inf.result.raised # ""
        THEN Response(500, [error |-> inf.result.raised])
        ELSE Response(200, [test_result |-> inf.result.value,
                            sample_pattern |-> sample_pattern,
                            status |-> "Test successful"]),
     inference |-> inf]

test_endpoint ==
    \E env \in Envs :
        Answer("/test", [t |-> "none"],
               TestReply(predict_chronotype(predictor, JList(sample_pattern), env)))

\* the response leaves the server; the handler's locals are gone
Deliver ==
    /\ response # Idle
    /\ response' = Idle
    /\ request' = Idle
    /\ result' = Pending
    /\ calls' = {}
    /\ activity_array' = <<>>
    /\ UNCHANGED <<predictor, featVars, pop, enhVars, concVars>>

Next ==
    \/ health_check
    \/ predict_chronotype_endpoint
    \/ calculate_circadian_rate
    \/ test_endpoint
    \/ Deliver

Spec == Init /\ [][Next]_vars

-----------------------------------------------------------------------------
(* Specification SpecConc: concurrent inference.  app.run serves requests  *)
(* on threads that share the one module-level predictor (line 156); each   *)
(* thread runs the rate handler, and its call of predict_chronotype, one   *)
(* statement at a time, interleaved with the other thread's statements.    *)

Threads == {1, 2}

ConcBodies ==
    { RateBody(JInt(10000), JInt(3), JList(PatternOf(10, MorningLevel, 0, 3))),
      RateBody(JInt(10000), JInt(10),
               JList(PatternOf(PadLen + Near, UniformLevel, 12, 3))),
      RateBody(JInt(12345), JInt(10), JNull) }

ConcEnvs ==
    { Env("none", <<70, 20, 10>>), Env("none", <<10, 30, 60>>),
      Env("encoder", <<70, 20, 10>>) }

\* the locals of a handler thread that has read its request
Arrived(data, env) ==
    [pc |-> "guard", data |-> data, env |-> env, activity_array |-> <<>>,
     calls |-> {}, width |-> 0, engineered |-> Pending, result |-> Pending,
     response |-> Idle]

\* predict_chronotype returns r to the handler
Finish(w, r) == [w EXCEPT !.pc = "reply", !.result = r]

\* lines 121-123: the except clause returns the error result
Caught(w, e, cs) == [Finish(w, Returned(Failure(e))) EXCEPT !.calls = cs]

\* faulty variant: a failing encoder is switched off for later calls
BundleAfter_DropsEncoder(self, w) ==
    IF w.pc = "encode" /\ UsesEncoder(self) /\ w.env.fails = "encoder"
    THEN [self EXCEPT !.encoder = FALSE]
    ELSE self

\* the bundle as one statement of an inference leaves it: neither
\* predict_chronotype (lines 75-123), create_engineered_features (125-153)
\* nor calculate_circadian_rate (188-247) assigns to a field of self
BundleAfter(self, w) == self

\* one statement of the thread with locals w, reading the shared bundle
Statement(self, w) ==
    CASE w.pc = "guard" ->                                  \* lines 77-78
           IF ~self.models_loaded
           THEN Finish(w, Returned(Failure("Models not loaded")))
           ELSE [w EXCEPT !.pc = "window"]
      [] w.pc = "window" ->                                 \* lines 82-89
           IF w.data.user_activity.t # "list"
           THEN Caught(w, "TypeError", {})
           ELSE [w EXCEPT !.pc = "encode",
                          !.activity_array =
                              PadOrTruncate(w.data.user_activity.items)]
      [] w.pc = "encode" ->                                 \* lines 92-96
           IF UsesEncoder(self)
           THEN IF w.env.fails = "encoder"
                THEN Caught(w, "RuntimeError", {"encoder"})
                ELSE [w EXCEPT !.pc = "features", !.calls = {"encoder"},
                               !.width = self.encoding_dim]
           ELSE [w EXCEPT !.pc = "features", !.calls = {"fallback"},
                          !.width = FallbackDim]
      [] w.pc = "features" ->                               \* line 99
           [w EXCEPT !.pc = "scale",
                     !.engineered =
                         create_engineered_features(
                             IF Len(w.data.user_activity.items) >= Window
                             THEN Slice(w.data.user_activity.items, 0, Window)
                             ELSE w.data.user_activity.items)]
      [] w.pc = "scale" ->                                  \* lines 102-105
           IF w.env.fails = "scaler"
           THEN Caught(w, "RuntimeError", w.calls \cup {"scaler"})
           ELSE IF w.engineered.raised # "" \/ w.width + 9 # self.scaler_width
           THEN Caught(w, "ValueError", w.calls \cup {"scaler"})
           ELSE [w EXCEPT !.pc = "classify", !.calls = @ \cup {"scaler"}]
      [] w.pc = "classify" ->                               \* lines 108-119
           IF w.env.fails = "classifier"
           THEN Caught(w, "RuntimeError", w.calls \cup {"classifier"})
           ELSE [Finish(w, Returned(
                    [chronotype |-> ArgmaxProb(w.env.prediction),
                     chronotype_name |->
                         chronotype_names[ArgmaxProb(w.env.prediction) + 1],
                     confidence |-> MaxProb(w.env.prediction),
                     success |-> TRUE]))
                 EXCEPT !.calls = @ \cup {"classifier"}]
      [] w.pc = "reply" ->                                  \* lines 206-247
           [w EXCEPT !.pc = "done",
                     !.response =
                         RateReply(w.data, Outcome(w.result, w.activity_array,
                                                   w.calls)).response]

InitConc ==
    /\ predictor \in {load_models(fs) : fs \in StartUps}
    /\ workers = [t \in Threads |-> Idle]
    /\ response = Idle
    /\ request = Idle
    /\ result = Pending
    /\ calls = {}
    /\ activity_array = <<>>
    /\ pattern = <<>>
    /\ serve_features = Pending
    /\ train_features = Pending
    /\ pop = Idle
    /\ user_data = Idle
    /\ draws = Idle
    /\ raised = ""
    /\ heap = Idle
    /\ loop = Idle

\* a request reaches calculate_circadian_rate on thread t
Arrive(t) ==
    /\ workers[t].pc = "idle"
    /\ \E data \in ConcBodies, env \in ConcEnvs :
           workers' = [workers EXCEPT ![t] = Arrived(data, env)]
    /\ UNCHANGED <<serverVars, featVars, pop, enhVars>>

\* thread t executes its next statement
Execute(t) ==
    /\ workers[t].pc \notin {"idle", "done"}
    /\ workers' = [workers EXCEPT ![t] = Statement(predictor, workers[t])]
    /\ predictor' = BundleAfter(predictor, workers[t])
    /\ UNCHANGED <<response, result, calls, activity_array, request,
                   featVars, pop, enhVars>>

NextConc == \E t \in Threads : Arrive(t) \/ Execute(t)

SpecConc == InitConc /\ [][NextConc]_vars

-----------------------------------------------------------------------------
(* Specification SpecFit: the classifier's scaler is fitted by the         *)
(* training pipeline, the server is started on the stored models and       *)
(* answers one inference.  draws fixes whether the encoder was found at    *)
(* training, the environment at start-up and the call.                     *)

FitDraws ==
    [trained_with_encoder : BOOLEAN,
     autoencoder : {"import_error", "no_info", "loaded", "raise_early", "raise_late"},
     classifier : {"loaded", "missing"},
     activity_pattern : {JList(PatternOf(n, MorningLevel, 0, 3)) : n \in {10, Window}},
     env : Envs]

InitFit ==
    /\ draws \in FitDraws
    /\ train_features = Pending
    /\ predictor = Idle
    /\ result = Pending
    /\ calls = {}
    /\ activity_array = <<>>
    /\ response = Idle
    /\ request = Idle
    /\ pattern = <<>>
    /\ serve_features = Pending
    /\ pop = Idle
    /\ user_data = Idle
    /\ raised = ""
    /\ workers = <<>>
    /\ heap = Idle
    /\ loop = Idle

\* ChronotypeClassifier.prepare_data: the scaler is fitted
PrepareData ==
    /\ train_features = Pending
    /\ train_features' =
           [feature_type |->
                IF draws.trained_with_encoder THEN "autoencoder" ELSE "raw",
            n_features_in |->
                TrainingWidth(draws.trained_with_encoder, FallbackDim)]
    /\ UNCHANGED <<serverVars, pattern, serve_features, pop, enhVars, concVars>>

\* predictor = MLPredictor() on the stored classifier and scaler
StartServer ==
    /\ train_features # Pending
    /\ predictor = Idle
    /\ predictor' = load_models([autoencoder |-> draws.autoencoder,
                                 classifier |-> draws.classifier,
                                 scaler_width |-> train_features.n_features_in])
    /\ UNCHANGED <<response, result, calls, activity_array, request, featVars,
                   pop, enhVars, concVars>>

\* the inference as it is handed to PredictCall
FitInference == predict_chronotype(predictor, draws.activity_pattern, draws.env)

\* one call of predictor.predict_chronotype
PredictCall ==
    /\ predictor # Idle
    /\ result = Pending
    /\ result' = FitInference.result
    /\ calls' = FitInference.calls
    /\ activity_array' = FitInference.activity_array
    /\ UNCHANGED <<predictor, response, request, featVars, pop, enhVars, concVars>>

NextFit == PrepareData \/ StartServer \/ PredictCall

SpecFit == InitFit /\ [][NextFit]_vars

-----------------------------------------------------------------------------
(* Population generation: generate_population_data(n_users, days)          *)

\* int(x * n / q) for the float product 0.25 * n: truncation towards zero
IntTrunc(n, q) == IF n >= 0 THEN n \div q ELSE -((-n) \div q)

\* faulty variant: the intermediate class is int(0.5 * n_users), not the remainder
Counts_NoRemainder(n_users) ==
    [n_early |-> IntTrunc(n_users, 4),
     n_late |-> IntTrunc(n_users, 4),
     n_intermediate |-> IntTrunc(n_users, 2)]

\* lines 142-145
Counts(n_users) ==
    [n_early |-> IntTrunc(n_users, 4),
     n_late |-> IntTrunc(n_users, 4),
     n_intermediate |-> n_users - IntTrunc(n_users, 4) - IntTrunc(n_users, 4)]

\* the decimal digits of a natural number
RECURSIVE Digits(_)
Digits(k) == IF k < 10 THEN <<k>> ELSE Append(Digits(k \div 10), k % 10)

\* faulty variant: the key is built from the last digit of user_id only
UserKey_LastDigit(user_id) == <<0, 0, 0, user_id % 10>>

\* f'user_{user_id:04d}': the digits of user_id, zero-padded to 4 at least
UserKey(user_id) ==
    LET ds == Digits(user_id)
    IN  IF Len(ds) >= 4 THEN ds ELSE [i \in 1..(4 - Len(ds)) |-> 0] \o ds

\* population_data['users'][key] = record
Store(users, key, rec) ==
    [k \in DOMAIN users \cup {key} |-> IF k = key THEN rec ELSE users[k]]

\* generate_circadian_oscillation(days): np.linspace / odeint / np.min raise
\* on an empty or negative time grid
OscillationRaises(days) == days < 1

\* The process-wide random source np.random.  The program never seeds it, so
\* its state at start-up is any seed; from then on its k-th variate is a
\* function of the seed and of k alone.  The variate is in [0, 1), here a
\* multiple of 1/8.
RandomSample(seed, k) == Rat((seed + 5 * k) % 8, 8)

Seeds == {0, 3}

\* np.random.uniform(low, high) on the variate u
Uniform(low, high, u) == RAdd(low, RMul(RSub(high, low), u))

\* faulty variant: a late chronotype drawn with the period range of an early one
generate_late_chronotype_ShortPeriod(seed, k) ==
    [mu |-> Uniform(Rat(12, 10), Rat(25, 10), RandomSample(seed, k)),
     tau |-> Uniform(Rat(225, 10), Rat(238, 10), RandomSample(seed, k + 1)),
     noise_level |-> Uniform(Rat(8, 100), Rat(18, 100), RandomSample(seed, k + 2))]

\* ChronotypeGenerator.generate_early_chronotype, drawing variates k, k+1, k+2
generate_early_chronotype(seed, k) ==
    [mu |-> Uniform(Rat(8, 10), Rat(15, 10), RandomSample(seed, k)),
     tau |-> Uniform(Rat(225, 10), Rat(238, 10), RandomSample(seed, k + 1)),
     noise_level |-> Uniform(Rat(5, 100), Rat(12, 100), RandomSample(seed, k + 2))]

\* ChronotypeGenerator.generate_late_chronotype
generate_late_chronotype(seed, k) ==
    [mu |-> Uniform(Rat(12, 10), Rat(25, 10), RandomSample(seed, k)),
     tau |-> Uniform(Rat(242, 10), Rat(255, 10), RandomSample(seed, k + 1)),
     noise_level |-> Uniform(Rat(8, 100), Rat(18, 100), RandomSample(seed, k + 2))]

\* ChronotypeGenerator.generate_intermediate_chronotype
generate_intermediate_chronotype(seed, k) ==
    [mu |-> Uniform(Rat(9, 10), Rat(18, 10), RandomSample(seed, k)),
     tau |-> Uniform(Rat(238, 10), Rat(242, 10), RandomSample(seed, k + 1)),
     noise_level |-> Uniform(Rat(6, 100), Rat(15, 100), RandomSample(seed, k + 2))]

\* the generator each loop calls
ChronotypeGenerator(chronotype, seed, k) ==
    IF chronotype = "early" THEN generate_early_chronotype(seed, k)
    ELSE IF chronotype = "late" THEN generate_late_chronotype(seed, k)
    ELSE generate_intermediate_chronotype(seed, k)

\* variates one subject consumes: three parameters, and one noise value for
\* each of the days * 24 * 4 samples of the oscillation
DrawsPerSubject(days) == 3 + days * 24 * 4

GenTotals == (-2..MaxUsers) \cup {DefaultUsers}
GenDays == {-1, 0, 1, 30}

InitPop ==
    /\ pop \in [pc : {"call"}, n_users : GenTotals, days : GenDays,
                seed : Seeds, rng : {0}]
    /\ predictor = Idle
    /\ response = Idle
    /\ request = Idle
    /\ result = Pending
    /\ calls = {}
    /\ activity_array = <<>>
    /\ pattern = <<>>
    /\ serve_features = Pending
    /\ train_features = Pending
    /\ user_data = Idle
    /\ draws = Idle
    /\ raised = ""
    /\ workers = <<>>
    /\ heap = Idle
    /\ loop = Idle

\* lines 139-161: the counts, the empty population, user_id = 0
GenStart ==
    /\ pop.pc = "call"
    /\ pop' = [pc |-> "early", n_users |-> pop.n_users, days |-> pop.days,
               seed |-> pop.seed, rng |-> pop.rng,
               counts |-> Counts(pop.n_users),
               users |-> <<>>,
               metadata |-> [total_users |-> pop.n_users,
                             days_per_user |-> pop.days,
                             chronotype_distribution |-> Counts(pop.n_users)],
               user_id |-> 0, i |-> 0]
    /\ UNCHANGED <<serverVars, featVars, enhVars, concVars>>

\* one iteration of the loop of class `chronotype` over range(n)
GenLoop(chronotype, n) ==
    /\ pop.pc = chronotype
    /\ pop.i < n
    /\ IF OscillationRaises(pop.days)
       THEN pop' = [pop EXCEPT !.pc = "raised", !.rng = pop.rng + 3]
       ELSE pop' = [pop EXCEPT
                       !.users = Store(pop.users, UserKey(pop.user_id),
                                       [chronotype |-> chronotype,
                                        user_id |-> pop.user_id,
                                        days |-> pop.days,
                                        parameters |->
                                            ChronotypeGenerator(chronotype,
                                                pop.seed, pop.rng)]),
                       !.rng = pop.rng + DrawsPerSubject(pop.days),
                       !.user_id = pop.user_id + 1,
                       !.i = pop.i + 1]
    /\ UNCHANGED <<serverVars, featVars, enhVars, concVars>>

\* range(n) is exhausted: on to the next loop, or return population_data
GenExit(chronotype, n, next) ==
    /\ pop.pc = chronotype
    /\ pop.i >= n
    /\ pop' = [pop EXCEPT !.pc = next, !.i = 0]
    /\ UNCHANGED <<serverVars, featVars, enhVars, concVars>>

GenEarly == GenLoop("early", pop.counts.n_early)
GenEarlyExit == GenExit("early", pop.counts.n_early, "late")
GenLate == GenLoop("late", pop.counts.n_late)
GenLateExit == GenExit("late", pop.counts.n_late, "intermediate")
GenIntermediate == GenLoop("intermediate", pop.counts.n_intermediate)
GenReturn == GenExit("intermediate", pop.counts.n_intermediate, "done")

NextPop ==
    \/ GenStart
    \/ GenEarly \/ GenEarlyExit
    \/ GenLate \/ GenLateExit
    \/ GenIntermediate \/ GenReturn

SpecPop == InitPop /\ [][NextPop]_vars

-----------------------------------------------------------------------------
(* data-generation/van_der_pol_generator.py: the oscillation of one        *)
(* subject, and data-generation/synthetic_user_patterns.py: the four       *)
(* behavioural transforms of BehavioralPatternEnhancer.                    *)
(*                                                                         *)
(* The values np.random yields are given by `draws`: a tape is a non-empty *)
(* sequence read cyclically, Tape(tape, i) being the value drawn for       *)
(* index i.                                                                *)

Tape(tape, i) == tape[(i % Len(tape)) + 1]

\* np.random.normal(0, scale) on the standard variate z
Normal(scale, z) == RMul(scale, Int2Rat(z))

\* np.clip(x, lo, hi); NaN stays NaN
NpClip(x, lo, hi) ==
    IF IsNaN(x) THEN NaN
    ELSE IF RLess(x, lo) THEN lo
    ELSE IF RLess(hi, x) THEN hi
    ELSE x

\* the physiological range 0.05 .. 1.0
ActivityMin == Rat(5, 100)
ActivityMax == Rat(1, 1)

RMaxOf(x, y) == IF RLess(x, y) THEN y ELSE x
RMinOf(x, y) == IF RLess(y, x) THEN y ELSE x

\* np.max / np.min of s[a..b], by halves
RECURSIVE NpMaxRange(_, _, _)
NpMaxRange(s, a, b) ==
    IF a = b THEN s[a]
    ELSE RMaxOf(NpMaxRange(s, a, (a + b) \div 2),
                NpMaxRange(s, (a + b) \div 2 + 1, b))

RECURSIVE NpMinRange(_, _, _)
NpMinRange(s, a, b) ==
    IF a = b THEN s[a]
    ELSE RMinOf(NpMinRange(s, a, (a + b) \div 2),
                NpMinRange(s, (a + b) \div 2 + 1, b))

\* d[key] = val on a dict
Put(d, key, val) == [k \in DOMAIN d \cup {key} |-> IF k = key THEN val ELSE d[k]]

\* int(x) of a non-negative rational
IntPart(x) == x.n \div x.d

\* faulty variant: the positions are drawn with replacement
NpChoice_WithReplacement(population_size, size, first) ==
    IF size > population_size THEN Raised("ValueError")
    ELSE Returned([j \in 1..size |-> first % population_size])

\* np.random.choice(population, size, replace=False), population given by
\* its size: `size` distinct positions 0..population_size-1, starting at the
\* drawn position `first`; ValueError on an empty population unless no
\* sample is taken, and on a sample larger than the population
NpChoice(population_size, size, first) ==
    IF size > population_size THEN Raised("ValueError")
    ELSE Returned([j \in 1..size |-> (first + j - 1) % population_size])

(* generate_circadian_oscillation *)

\* solution[:, 0] of odeint at sample k, in tenths: an oscillation between
\* -2 and 2 with a period of 16 samples, shifted by `phase`
Solution(phase, k) == Rat(20 - Abs(((5 * k + phase) % 80) - 40), 10)

\* line 66-67: 0.1 + 0.9 * (x - min) / (max - min); 0/0 and x/0 are NaN
Normalize(x, lowest, highest) ==
    IF RSub(highest, lowest) = Zero THEN NaN
    ELSE RAdd(Rat(1, 10),
              RMul(Rat(9, 10),
                   RMul(RSub(x, lowest),
                        Rat(RSub(highest, lowest).d, RSub(highest, lowest).n))))

\* lines 63-71: activity_with_noise from the solution
ActivityWithNoise(activity_raw, lowest, highest, noise_level, noise) ==
    [p \in 1..Len(activity_raw) |->
        NpClip(RAdd(Normalize(activity_raw[p], lowest, highest),
                    Normal(noise_level, Tape(noise, p - 1))),
               ActivityMin, ActivityMax)]

\* lines 60-71: the solution, its extremes and the noisy activity
NoisyOscillation(activity_raw, noise_level, noise) ==
    ActivityWithNoise(activity_raw,
                      NpMinRange(activity_raw, 1, Len(activity_raw)),
                      NpMaxRange(activity_raw, 1, Len(activity_raw)),
                      noise_level, noise)

\* faulty variant: the bucket of an hour is hour < t[k] <= hour + 1
HourIndices_OpenClosed(hour, total_hours, samples) ==
    {k \in 0..(samples - 1) :
        /\ hour * (samples - 1) < k * total_hours
        /\ k * total_hours <= (hour + 1) * (samples - 1)}

\* line 78: the samples k with hour <= t[k] < hour + 1, where
\* t = np.linspace(0, total_hours, samples), t[k] = k * total_hours / (samples - 1)
HourIndices(hour, total_hours, samples) ==
    {k \in 0..(samples - 1) :
        /\ hour * (samples - 1) <= k * total_hours
        /\ k * total_hours < (hour + 1) * (samples - 1)}

\* the smallest / largest element of a non-empty set of integers
SetMin(S) == CHOOSE x \in S : \A y \in S : x <= y
SetMax(S) == CHOOSE x \in S : \A y \in S : y <= x

\* line 81: np.mean(activity_with_noise[hour_indices]); the indices of an
\* hour are consecutive
HourMean(activity_with_noise, indices) ==
    NpMean(SubSeq(activity_with_noise, SetMin(indices) + 1, SetMax(indices) + 1))

\* lines 77-81: the hours that have a sample, in order
HoursWithSamples(total_hours, samples) ==
    SelectSeq([p \in 1..total_hours |-> p - 1],
              LAMBDA hour : HourIndices(hour, total_hours, samples) # {})

\* lines 73-98: the hourly series built from activity_with_noise
HourlyResult(days, parameters, activity_with_noise, hourly_times) ==
    [time_hours |-> hourly_times,
     activity_level |->
        [p \in 1..Len(hourly_times) |->
            HourMean(activity_with_noise,
                     HourIndices(hourly_times[p], days * 24, days * 24 * 4))],
     parameters |-> [mu |-> parameters.mu, tau |-> parameters.tau,
                     noise_level |-> parameters.noise_level, days |-> days]]

\* CircadianVanDerPolGenerator.generate_circadian_oscillation(days) of a
\* generator with the given parameters; phase selects the solution odeint
\* returns and noise is the tape of standard variates
generate_circadian_oscillation(days, parameters, phase, noise) ==
    IF OscillationRaises(days) THEN Raised("ValueError")
    ELSE Returned(
            HourlyResult(days, parameters,
                NoisyOscillation([p \in 1..(days * 24 * 4) |-> Solution(phase, p - 1)],
                                 parameters.noise_level, noise),
                HoursWithSamples(days * 24, days * 24 * 4)))


(* BehavioralPatternEnhancer *)

\* faulty variant: the whole of Friday counts as weekend
IsWeekend_WholeFriday(hour) == (hour \div 24) % 7 \in {4, 5, 6}

\* line 29-33: Friday from 18:00, Saturday and Sunday
IsWeekend(hour) ==
    \/ (hour \div 24) % 7 \in {5, 6}
    \/ ((hour \div 24) % 7 = 4 /\ hour % 24 >= 18)

\* lines 28-40.  Sample i is replaced by sample i + phase_shift of the same
\* array, which the ascending loop has not written yet.  shifts is the tape
\* of int(np.random.uniform(1, 3)).
SocialJetlagSignal(activity, time_hours, shifts) ==
    [p \in 1..Len(activity) |->
        IF /\ p <= Len(time_hours)
           /\ IsWeekend(time_hours[p])
           /\ (p - 1) + Tape(shifts, p - 1) < Len(activity)
        THEN activity[p + Tape(shifts, p - 1)]
        ELSE activity[p]]

\* BehavioralPatternEnhancer.add_social_jetlag
add_social_jetlag(ud, dr) ==
    Returned(Put(ud, "activity_level_with_social_jetlag",
                 SocialJetlagSignal(ud.activity_level, ud.time_hours, dr.shifts)))

\* lines 53-57
stress_factors(chronotype) ==
    IF chronotype = "early" THEN Rat(5, 100)
    ELSE IF chronotype = "intermediate" THEN Rat(10, 100)
    ELSE Rat(15, 100)

\* lines 65-73: the days drawn lose activity and gain noise
StressSignal(activity, stress_level, stress_days, noise) ==
    [p \in 1..Len(activity) |->
        IF \E j \in 1..Len(stress_days) :
               /\ stress_days[j] * 24 <= p - 1
               /\ p - 1 < Min(stress_days[j] * 24 + 24, Len(activity))
        THEN NpClip(RAdd(RMul(activity[p], RSub(Int2Rat(1), stress_level)),
                         Normal(RMul(stress_level, Rat(1, 2)), Tape(noise, p - 1))),
                    ActivityMin, ActivityMax)
        ELSE activity[p]]

\* lines 65-77, given the outcome of np.random.choice
StressResult(ud, dr, stress_days) ==
    IF stress_days.raised # "" THEN stress_days
    ELSE Returned(
            Put(Put(ud, "activity_level_with_stress",
                    StressSignal(ud.activity_level, stress_factors(ud.chronotype),
                                 stress_days.value, dr.stress_noise)),
                "stress_events", stress_days.value))

\* faulty variant: stress is injected into the signal social jetlag derived,
\* when there is one, and that signal becomes the base
add_stress_patterns_Chained(ud, dr) ==
    StressResult(
        IF "activity_level_with_social_jetlag" \in DOMAIN ud
        THEN Put(ud, "activity_level", ud.activity_level_with_social_jetlag)
        ELSE ud,
        dr,
        NpChoice(Len(ud.activity_level) \div 24,
                 IntPart(RMul(dr.stress_fraction,
                              Int2Rat(Len(ud.activity_level) \div 24))),
                 dr.stress_first))

\* BehavioralPatternEnhancer.add_stress_patterns; dr.stress_fraction is
\* np.random.uniform(0.05, 0.10)
add_stress_patterns(ud, dr) ==
    StressResult(ud, dr,
        NpChoice(Len(ud.activity_level) \div 24,
                 IntPart(RMul(dr.stress_fraction,
                              Int2Rat(Len(ud.activity_level) \div 24))),
                 dr.stress_first))

\* lines 87-91
seasonal_strength(chronotype) ==
    IF chronotype = "early" THEN Rat(5, 100)
    ELSE IF chronotype = "intermediate" THEN Rat(10, 100)
    ELSE Rat(20, 100)

\* Bhaskara's rational approximation of the sine of a half-turn, for an
\* angle of t / 1460 turns, 0 <= t <= 730, in thousandths
HalfSine(t) == (4000 * (t * (730 - t))) \div (666125 - t * (730 - t))

\* the angle 2 * pi * (day_of_year - 80) / 365 plus a quarter turn, in
\* 1460ths of a turn
SeasonPhase(day_of_year) == (4 * (day_of_year - 80) + 365) % 1460

\* np.cos(2 * np.pi * (day_of_year - 80) / 365), to the thousandth given by
\* HalfSine: the cosine is the sine a quarter turn (365 / 1460) ahead
SeasonCosine(day_of_year) ==
    IF SeasonPhase(day_of_year) <= 730
    THEN Rat(HalfSine(SeasonPhase(day_of_year)), 1000)
    ELSE Rat(-HalfSine(SeasonPhase(day_of_year) - 730), 1000)

\* lines 95-98: seasonal_factor for the sample of the given hour
SeasonalFactor(strength, hour) ==
    RAdd(Int2Rat(1), RMul(strength, SeasonCosine((hour \div 24) % 365)))

\* lines 93-100
SeasonalSignal(activity, time_hours, strength) ==
    [p \in 1..Len(activity) |->
        IF p <= Len(time_hours)
        THEN NpClip(RMul(activity[p], SeasonalFactor(strength, time_hours[p])),
                    ActivityMin, ActivityMax)
        ELSE activity[p]]

\* BehavioralPatternEnhancer.add_seasonal_variation
add_seasonal_variation(ud, dr) ==
    Returned(Put(ud, "activity_level_with_seasonal",
                 SeasonalSignal(ud.activity_level, ud.time_hours,
                                seasonal_strength(ud.chronotype))))

\* line 145: abs(timezone_shift) * (1 - recovery_day / recovery_days) / 8
ShiftStrength(timezone_shift, recovery_day, recovery_days) ==
    Rat(Abs(timezone_shift) * (recovery_days - recovery_day), 8 * recovery_days)

\* faulty variant: the jetlagged sample is not clamped
JetlagSample_NoClip(x, shift_strength, z) ==
    RAdd(RMul(x, RSub(Int2Rat(1), RMul(shift_strength, Rat(3, 10)))),
         Normal(RMul(shift_strength, Rat(2, 10)), z))

\* lines 149-151 on one sample
JetlagSample(x, shift_strength, z) ==
    NpClip(RAdd(RMul(x, RSub(Int2Rat(1), RMul(shift_strength, Rat(3, 10)))),
                Normal(RMul(shift_strength, Rat(2, 10)), z)),
           ActivityMin, ActivityMax)

\* lines 137-151: one trip applied to the array
ApplyTrip(activity, total_days, trip, noise) ==
    [p \in 1..Len(activity) |->
        IF /\ trip.day <= (p - 1) \div 24
           /\ (p - 1) \div 24 < trip.day + trip.recovery_days
           /\ (p - 1) \div 24 < total_days
        THEN JetlagSample(activity[p],
                          ShiftStrength(trip.timezone_shift,
                                        (p - 1) \div 24 - trip.day,
                                        trip.recovery_days),
                          Tape(noise, p - 1))
        ELSE activity[p]]

\* lines 123-151: the trips applied one after the other to the same array
RECURSIVE ApplyTrips(_, _, _, _, _)
ApplyTrips(activity, total_days, travel_events, noise, done) ==
    IF done = Len(travel_events) THEN activity
    ELSE ApplyTrips(ApplyTrip(activity, total_days, travel_events[done + 1], noise),
                    total_days, travel_events, noise, done + 1)

\* lines 123-134: the event of each trip day; the time zone change is
\* np.random.choice([-8, -6, -3, 3, 6, 8]) and the recovery period
\* np.random.randint(3, 8)
TravelEvents(trip_days, dr) ==
    [j \in 1..Len(trip_days) |->
        [day |-> 7 + trip_days[j],
         timezone_shift |-> Tape(dr.timezone_shifts, j - 1),
         recovery_days |-> Tape(dr.recovery_days, j - 1)]]

\* lines 121-157, given the outcome of np.random.choice
TravelResult(ud, dr, total_days, trip_days) ==
    IF trip_days.raised # "" THEN trip_days
    ELSE Returned(
            Put(Put(ud, "travel_events", TravelEvents(trip_days.value, dr)),
                "activity_level_with_jetlag",
                ApplyTrips(ud.activity_level, total_days,
                           TravelEvents(trip_days.value, dr), dr.jetlag_noise, 0)))

\* len(range(a, b))
RangeLen(a, b) == IF b > a THEN b - a ELSE 0

\* BehavioralPatternEnhancer.add_travel_jetlag(user_data, n_trips)
add_travel_jetlag(ud, dr, n_trips) ==
    IF n_trips > 0 /\ Len(ud.time_hours) \div 24 > 7
    THEN TravelResult(ud, dr, Len(ud.time_hours) \div 24,
             NpChoice(RangeLen(7, Len(ud.time_hours) \div 24 - 7),
                      Min(n_trips, (Len(ud.time_hours) \div 24) \div 10),
                      dr.trip_first))
    ELSE Returned(Put(Put(ud, "travel_events", <<>>),
                      "activity_level_with_jetlag", ud.activity_level))

-----------------------------------------------------------------------------
(* Specification SpecEnh: one subject is taken from the population and the *)
(* four transforms are called on its dict.  `draws` fixes, for the run, the *)
(* subject and every value np.random yields.                               *)

\* a stored activity series of `len` hourly samples within 0.05 .. 1.0
LoadedSignal(len, shape) ==
    [p \in 1..len |->
        IF shape = "floor" THEN ActivityMin
        ELSE IF shape = "ceiling" THEN ActivityMax
        ELSE Rat(5 + ((p * 37) % 96), 100)]

\* lines 169-173 of the generator: the subject's dict
GeneratedUser(chronotype, data) ==
    [chronotype |-> chronotype, user_id |-> 0,
     time_hours |-> data.time_hours,
     activity_level |-> data.activity_level,
     parameters |-> data.parameters]

\* the subject of the run: generated here, or read back from the stored
\* population (synthetic_user_patterns.py:304-310)
Subject(dr) ==
    IF dr.source = "generated"
    THEN GeneratedUser(dr.chronotype,
             generate_circadian_oscillation(dr.days,
                 ChronotypeGenerator(dr.chronotype, 0, 0), dr.phase, dr.noise).value)
    ELSE [chronotype |-> dr.chronotype, user_id |-> 0,
          time_hours |-> [p \in 1..dr.len |-> p - 1],
          activity_level |-> LoadedSignal(dr.len, dr.shape),
          parameters |-> ChronotypeGenerator(dr.chronotype, 0, 0)]

\* values np.random yields: small draws, and large ones that drive samples
\* out of the range
QuietDraws ==
    [noise |-> <<0>>, shifts |-> <<1>>,
     stress_fraction |-> Rat(5, 100), stress_first |-> 0, stress_noise |-> <<0>>,
     trip_first |-> 0, timezone_shifts |-> <<3, -8>>, recovery_days |-> <<3, 4>>,
     jetlag_noise |-> <<0>>]

LoudDraws ==
    [noise |-> <<3, -3, 0>>, shifts |-> <<2, 1>>,
     stress_fraction |-> Rat(99, 1000), stress_first |-> 3,
     stress_noise |-> <<40, -40>>,
     trip_first |-> 2, timezone_shifts |-> <<-8, 3>>, recovery_days |-> <<4, 3>>,
     jetlag_noise |-> <<-40, 40, 1>>]

\* numbers of days of the stored subjects, and a few samples of a further day
EnhDays == {0, 1, 8, 9, 10, 14, 15, MaxDays}
EnhLens == {24 * d : d \in EnhDays} \cup {10, 25, 24 * 8 + 5, 24 * 10 + 5}

Subjects ==
    [source : {"loaded"}, len : EnhLens, shape : {"floor", "ceiling", "wave"},
     chronotype : {"early", "late"}, n_trips : {2}]
    \cup
    [source : {"loaded"}, len : {24 * 10, 24 * MaxDays}, shape : {"wave"},
     chronotype : {"intermediate"}, n_trips : {0}]
    \cup
    [source : {"loaded"}, len : {24 * DefaultDays}, shape : {"wave"},
     chronotype : {"late"}, n_trips : {2}]
    \cup
    [source : {"generated"}, days : {1, 2}, phase : {0, 13},
     chronotype : {"early", "late"}, n_trips : {2}]

EnhDraws == {sub @@ d : sub \in Subjects, d \in {QuietDraws, LoudDraws}}

InitEnh ==
    /\ draws \in EnhDraws
    /\ user_data = Idle
    /\ raised = ""
    /\ workers = <<>>
    /\ heap = Idle
    /\ loop = Idle
    /\ pop = Idle
    /\ predictor = Idle
    /\ response = Idle
    /\ request = Idle
    /\ result = Pending
    /\ calls = {}
    /\ activity_array = <<>>
    /\ pattern = <<>>
    /\ serve_features = Pending
    /\ train_features = Pending

\* dict.copy(): a new dict with the same values; a value that is the
\* address of an object still refers to that object
DictCopy(d) == d

\* the population handed to enhance_population_data: a dict whose 'users'
\* and 'metadata' values are the addresses of two dicts among the objects
GivenPopulation == [users |-> 1, metadata |-> 2]

GivenObjects(dr) ==
    <<(UserKey(0) :> Subject(dr)),
      [total_users |-> 1, days_per_user |-> Len(Subject(dr).time_hours) \div 24]>>

\* enhance_population_data, lines 167-176, for the subject of the run:
\* enhanced_data = population_data.copy() and
\* enhanced_user_data = user_data.copy()
CopyUser ==
    /\ user_data = Idle
    /\ user_data' = Subject(draws)
    /\ heap' = [pc |-> "for",
                population_data |-> GivenPopulation,
                enhanced_data |-> DictCopy(GivenPopulation),
                objects |-> GivenObjects(draws)]
    /\ UNCHANGED <<raised, draws, serverVars, featVars, pop, concVars, loop>>

\* a transform returns the dict, or raises and ends the enhancement
Transformed(r) ==
    /\ user_data # Idle
    /\ raised = ""
    /\ IF r.raised # ""
       THEN raised' = r.raised /\ UNCHANGED user_data
       ELSE user_data' = r.value /\ UNCHANGED raised
    /\ UNCHANGED <<draws, serverVars, featVars, pop, concVars, heap, loop>>

\* the four methods, in whatever order their caller uses
\* (enhance_population_data, lines 179-182, calls them in this order)
SocialJetlag == Transformed(add_social_jetlag(user_data, draws))
StressInjection == Transformed(add_stress_patterns(user_data, draws))
SeasonalModulation == Transformed(add_seasonal_variation(user_data, draws))
TravelJetlag == Transformed(add_travel_jetlag(user_data, draws, draws.n_trips))

\* line 185, after the four calls of lines 179-182 have returned:
\* enhanced_data['users'][user_id] = enhanced_user_data; line 188: return
StoreUser ==
    /\ user_data # Idle
    /\ raised = ""
    /\ heap.pc = "for"
    /\ {"activity_level_with_social_jetlag", "activity_level_with_stress",
        "activity_level_with_seasonal", "activity_level_with_jetlag"}
           \subseteq DOMAIN user_data
    /\ heap' = [heap EXCEPT
                   !.pc = "returned",
                   !.objects[heap.enhanced_data.users][UserKey(0)] = user_data]
    /\ UNCHANGED <<user_data, raised, draws, serverVars, featVars, pop,
                   concVars, loop>>

NextEnh ==
    \/ CopyUser
    \/ SocialJetlag
    \/ StressInjection
    \/ SeasonalModulation
    \/ TravelJetlag
    \/ StoreUser

SpecEnh == InitEnh /\ [][NextEnh]_vars

-----------------------------------------------------------------------------
(* Specification SpecSocial: add_social_jetlag, one iteration of its for   *)
(* loop at a time.  loop.activity is the copy the loop rewrites in place   *)
(* and loop.i the index of the next iteration.                             *)

\* faulty variant: the sample is taken from phase_shift positions behind
SocialIteration_ReadsBehind(activity, hour, i, phase_shift) ==
    IF IsWeekend(hour) /\ i - phase_shift >= 0 /\ i < Len(activity)
    THEN [activity EXCEPT ![i + 1] = activity[i - phase_shift + 1]]
    ELSE activity

\* lines 29-40: the body of the loop for index i and hour time_hours[i],
\* on the array as the earlier iterations left it
SocialIteration(activity, hour, i, phase_shift) ==
    IF IsWeekend(hour) /\ i + phase_shift < Len(activity)
    THEN [activity EXCEPT ![i + 1] = activity[i + phase_shift + 1]]
    ELSE activity

\* lengths that end before, at the start of, inside and after a weekend
SocialLens == {0, 10, 24 * 4 + 19, 24 * 5 + 2, 24 * 7, 24 * 8 + 5}

\* the shifts are int(np.random.uniform(1, 3)): 1 or 2, and 3 when the
\* float product 1 + 2 * u rounds up to the upper limit
SocialDraws ==
    [source : {"loaded"}, len : SocialLens, shape : {"wave"},
     chronotype : {"late"}, shifts : {<<1>>, <<2, 1>>, <<3, 1, 2>>}]

InitSocial ==
    /\ draws \in SocialDraws
    /\ user_data = Subject(draws)
    /\ loop = Idle
    /\ raised = ""
    /\ workers = <<>>
    /\ heap = Idle
    /\ pop = Idle
    /\ predictor = Idle
    /\ response = Idle
    /\ request = Idle
    /\ result = Pending
    /\ calls = {}
    /\ activity_array = <<>>
    /\ pattern = <<>>
    /\ serve_features = Pending
    /\ train_features = Pending

\* lines 24-25: activity = user_data['activity_level'].copy()
SocialEnter ==
    /\ loop = Idle
    /\ loop' = [pc |-> "for", i |-> 0, activity |-> user_data.activity_level]
    /\ UNCHANGED <<user_data, draws, raised, heap, serverVars, featVars, pop,
                   concVars>>

\* lines 28-40: one iteration of for i, hour in enumerate(time_hours)
SocialIterate ==
    /\ loop.pc = "for"
    /\ loop.i < Len(user_data.time_hours)
    /\ loop' = [loop EXCEPT
                   !.i = @ + 1,
                   !.activity =
                       SocialIteration(@, user_data.time_hours[loop.i + 1],
                                       loop.i, Tape(draws.shifts, loop.i))]
    /\ UNCHANGED <<user_data, draws, raised, heap, serverVars, featVars, pop,
                   concVars>>

\* lines 42-43: the loop is exhausted; the array is attached and returned
SocialExit ==
    /\ loop.pc = "for"
    /\ loop.i = Len(user_data.time_hours)
    /\ user_data' = Put(user_data, "activity_level_with_social_jetlag",
                        loop.activity)
    /\ loop' = [loop EXCEPT !.pc = "done"]
    /\ UNCHANGED <<draws, raised, heap, serverVars, featVars, pop, concVars>>

NextSocial == SocialEnter \/ SocialIterate \/ SocialExit

SpecSocial == InitSocial /\ [][NextSocial]_vars

-----------------------------------------------------------------------------
(* Specification SpecSeason: the body of the loop of add_seasonal_variation *)
(* on one sample, for a sample at noon of every day of a year and of the   *)
(* first days of the next.                                                 *)

SeasonHours == {24 * d + 12 : d \in 0..(365 + 2)}

SeasonDraws ==
    [hour : SeasonHours, chronotype : {"early", "intermediate", "late"},
     sample : {Rat(1, 2), Rat(19, 20)}]

InitSeason ==
    /\ draws \in SeasonDraws
    /\ user_data = Idle
    /\ loop = Idle
    /\ raised = ""
    /\ workers = <<>>
    /\ heap = Idle
    /\ pop = Idle
    /\ predictor = Idle
    /\ response = Idle
    /\ request = Idle
    /\ result = Pending
    /\ calls = {}
    /\ activity_array = <<>>
    /\ pattern = <<>>
    /\ serve_features = Pending
    /\ train_features = Pending

\* lines 93-100 for one sample: the factor and the modulated sample
SeasonalSample ==
    /\ user_data = Idle
    /\ user_data' =
           [pc |-> "done",
            seasonal_factor |->
                SeasonalFactor(seasonal_strength(draws.chronotype), draws.hour),
            activity |->
                SeasonalSignal(<<draws.sample>>, <<draws.hour>>,
                               seasonal_strength(draws.chronotype))[1]]
    /\ UNCHANGED <<draws, raised, heap, loop, serverVars, featVars, pop, concVars>>

NextSeason == SeasonalSample

SpecSeason == InitSeason /\ [][NextSeason]_vars

-----------------------------------------------------------------------------
(* Specification SpecOsc: generate_circadian_oscillation(days), its hourly *)
(* loop one hour at a time.  loop holds the locals: the noisy activity on  *)
(* the integration grid, the hour of the next iteration, the two lists the *)
(* loop appends to, and the size of each hour's hour_indices.              *)

SimDays == (0..MaxSimDays) \cup {DefaultDays}

SimDraws ==
    [days : SimDays, chronotype : {"early"}, phase : {0, 13},
     noise : {<<3, -3, 0>>}]

InitOsc ==
    /\ draws \in SimDraws
    /\ user_data = Idle
    /\ loop = Idle
    /\ raised = ""
    /\ workers = <<>>
    /\ heap = Idle
    /\ pop = Idle
    /\ predictor = Idle
    /\ response = Idle
    /\ request = Idle
    /\ result = Pending
    /\ calls = {}
    /\ activity_array = <<>>
    /\ pattern = <<>>
    /\ serve_features = Pending
    /\ train_features = Pending

\* lines 52-75: the grid, the solution, the noisy activity, the empty lists
OscIntegrate ==
    /\ loop = Idle
    /\ raised = ""
    /\ IF OscillationRaises(draws.days)
       THEN raised' = "ValueError" /\ UNCHANGED loop
       ELSE /\ loop' =
                   [pc |-> "for", hour |-> 0,
                    activity_with_noise |->
                        NoisyOscillation(
                            [p \in 1..(draws.days * 24 * 4) |->
                                Solution(draws.phase, p - 1)],
                            ChronotypeGenerator(draws.chronotype, 0, 0).noise_level,
                            draws.noise),
                    hourly_times |-> <<>>, hourly_activity |-> <<>>,
                    points |-> <<>>]
            /\ UNCHANGED raised
    /\ UNCHANGED <<user_data, draws, heap, serverVars, featVars, pop, concVars>>

\* lines 78-81 for the hour's hour_indices
OscAppend(l, indices) ==
    IF indices # {}
    THEN [l EXCEPT !.hour = @ + 1,
                   !.points = Append(@, Cardinality(indices)),
                   !.hourly_times = Append(@, l.hour),
                   !.hourly_activity =
                       Append(@, HourMean(l.activity_with_noise, indices))]
    ELSE [l EXCEPT !.hour = @ + 1, !.points = Append(@, 0)]

\* lines 77-81: one iteration of for hour in range(total_hours)
OscHour ==
    /\ loop # Idle
    /\ loop.pc = "for"
    /\ loop.hour < draws.days * 24
    /\ loop' = OscAppend(loop, HourIndices(loop.hour, draws.days * 24,
                                           draws.days * 24 * 4))
    /\ UNCHANGED <<user_data, draws, raised, heap, serverVars, featVars, pop,
                   concVars>>

\* lines 83-98: the dict returned
OscReturn ==
    /\ loop # Idle
    /\ loop.pc = "for"
    /\ loop.hour = draws.days * 24
    /\ loop' = [loop EXCEPT !.pc = "done"]
    /\ user_data' =
           [time_hours |-> loop.hourly_times,
            activity_level |-> loop.hourly_activity,
            parameters |->
                [mu |-> ChronotypeGenerator(draws.chronotype, 0, 0).mu,
                 tau |-> ChronotypeGenerator(draws.chronotype, 0, 0).tau,
                 noise_level |->
                     ChronotypeGenerator(draws.chronotype, 0, 0).noise_level,
                 days |-> draws.days]]
    /\ UNCHANGED <<draws, raised, heap, serverVars, featVars, pop, concVars>>

NextOsc == OscIntegrate \/ OscHour \/ OscReturn

SpecOsc == InitOsc /\ [][NextOsc]_vars

-----------------------------------------------------------------------------
(* Claims about feature engineering (specification SpecFeat)               *)

Computed(f) == f # Pending

\* the integer sum of samples a..b (1-based, inclusive) of an integer window
RECURSIVE SumInts(_, _, _)
SumInts(w, a, b) == IF a > b THEN 0 ELSE w[a].n + SumInts(w, a + 1, b)

\* r is the real number num / den
IsFraction(r, num, den) == r.d # 0 /\ r.n * den = num * r.d

\* C5: train/serve feature parity: for every input window, whatever its
\* length, the vector computed at corpus-build time equals the one computed
\* at inference time (same outcome, same nine values).
C5_FeatureParity ==
    (Computed(serve_features) /\ Computed(train_features))
        => train_features = serve_features

\* the window the claim of C6 describes: the n given samples followed by
\* 24-n copies of their mean
C6_ExpectedWindow(p) ==
    [i \in 1..Window |->
        IF i <= Len(p) THEN p[i] ELSE Rat(SumInts(p, 1, Len(p)), Len(p))]

\* C6: on the empty signal the features are nine zeros; on a signal of n
\* samples, 0 < n < 24, they are the features of the 24-sample window made
\* of the n samples followed by 24-n copies of their mean (in particular
\* meanActivity is the mean of the n samples).
C6_EmptyAndPadding ==
    Computed(serve_features) =>
        /\ serve_features.raised = ""
        /\ Len(serve_features.value) = 9
        /\ Len(pattern) = 0 =>
              \A k \in 1..9 : serve_features.value[k] = [n |-> 0, d |-> 1]
        /\ (0 < Len(pattern) /\ Len(pattern) < Window) =>
              /\ serve_features = create_engineered_features(C6_ExpectedWindow(pattern))
              /\ IsFraction(serve_features.value[3],
                            SumInts(pattern, 1, Len(pattern)), Len(pattern))

C6_Witness ==
    /\ Computed(serve_features)
    /\ Len(pattern) = 10
    /\ \E i \in 1..10 : pattern[i] # pattern[1]

\* the features of a window of at least 24 integer samples, as C7 states them
C7_Describes(f, p) ==
    LET peak == f[1].n
        trough == f[2].n
    IN  /\ Len(f) = 9
        /\ f[1].d = 1 /\ peak \in 0..(Window - 1)
        /\ \A j \in 1..Window : p[j].n <= p[peak + 1].n
        /\ f[2].d = 1 /\ trough \in 0..(Window - 1)
        /\ \A j \in 1..Window : p[j].n >= p[trough + 1].n
        /\ IsFraction(f[3], SumInts(p, 1, 24), 24)
        /\ IsFraction(f[5], SumInts(p, 7, 12), 6)
        /\ IsFraction(f[6], SumInts(p, 19, 24), 6)
        /\ IsFraction(f[7], SumInts(p, 1, 6), 6)
        /\ IsFraction(f[9], peak - 12, 12)

\* the windows that differ from p in one sample at index 24 or later
C7_TailVariants(p) ==
    { [p EXCEPT ![i] = Int2Rat(v)] : i \in (Window + 1)..Len(p), v \in Samples }

\* C7: for a signal of at least 24 samples the features depend on samples
\* 0..23 only, peakHour / troughHour are indices in 0..23 of a maximum /
\* minimum of that window, the three block means are those of hours 6..11,
\* 18..23 and 0..5, and normalizedPeakOffset = (peakHour - 12) / 12; at the
\* inference call site and at the corpus-build call site.
C7_WindowFeatures ==
    Len(pattern) >= Window =>
        /\ Computed(serve_features) =>
              /\ serve_features.raised = ""
              /\ C7_Describes(serve_features.value, pattern)
              /\ \A q \in C7_TailVariants(pattern) :
                     create_engineered_features(q) = serve_features
        /\ Computed(train_features) =>
              /\ train_features.raised = ""
              /\ C7_Describes(train_features.value, pattern)
              /\ \A q \in C7_TailVariants(pattern) :
                     create_time_based_features(q) = train_features

C7_Witness ==
    /\ Computed(serve_features) /\ Computed(train_features)
    /\ Len(pattern) = Window + 2
    /\ pattern[Window + 1] = Int2Rat(3)
    /\ serve_features.value[1] # serve_features.value[2]

-----------------------------------------------------------------------------
(* Claims about the server (specification Spec)                            *)

RateRoute == "/calculate_circadian_rate"

\* a rate request that was answered with a rate
RateAnswered ==
    /\ response # Idle
    /\ request.route = RateRoute
    /\ response.status = 200

\* the hourly table as C1 states it
C1_H(hour) ==
    IF hour \in 2..6 THEN 8500
    ELSE IF hour \in 9..17 THEN 11000
    ELSE IF hour \in {22, 23, 0, 1} THEN 9000
    ELSE 10000

\* the chronotype table as C1 states it
C1_C(label) == IF label = 0 THEN 9500 ELSE IF label = 1 THEN 10000 ELSE 10500

\* floor(b * h * c / 10^8) for multipliers that are multiples of 500:
\* b * h * c / 10^8 = b * (h / 500) * (c / 500) / 400
C1_Floor(b, h, c) == (b * (h \div 500) * (c \div 500)) \div 400

\* C1: for every integer base rate, hour in 0..23 and label in {0,1,2} the
\* adjusted rate is floor(baseRate * H(hour) * C(label) / 10^8), an integer.
C1_RateFormula ==
    (RateAnswered /\ request.data.current_hour.t = "int"
                  /\ request.data.current_hour.v \in 0..23)
    => /\ response.body.chronotype \in 0..2
       /\ response.body.adjusted_rate \in Int
       /\ response.body.adjusted_rate =
              C1_Floor(request.data.base_rate.v,
                       C1_H(request.data.current_hour.v),
                       C1_C(response.body.chronotype))

C1_Witness ==
    /\ RateAnswered
    /\ request.data.base_rate = JInt(-10001)
    /\ request.data.current_hour = JInt(7)
    /\ response.body.chronotype = 2
    /\ response.body.adjusted_rate = -10502

\* the answers the request at hand gets under every behaviour of the
\* collaborators
C2_Answers ==
    { RateHandler(predictor, request.data, env).response : env \in Envs }

\* C2: the adjusted rate does not depend on confidence: two rate
\* computations with the same base rate, hour and label give the same rate
\* whatever their confidence values (10000 at hour 3 for label 0 gives 8075,
\* 10000 at hour 10 for label 2 gives 11550).
C2_ConfidenceIgnored ==
    RateAnswered =>
        /\ \A other \in C2_Answers :
              (other.status = 200
                  /\ other.body.chronotype = response.body.chronotype)
              => other.body.adjusted_rate = response.body.adjusted_rate
        /\ (request.data.base_rate.v = 10000 /\ request.data.current_hour = JInt(3)
              /\ response.body.chronotype = 0)
           => response.body.adjusted_rate = 8075
        /\ (request.data.base_rate.v = 10000 /\ request.data.current_hour = JInt(10)
              /\ response.body.chronotype = 2)
           => response.body.adjusted_rate = 11550

C2_Witness ==
    /\ RateAnswered
    /\ request.data.base_rate.v = 10000
    /\ request.data.current_hour = JInt(3)
    /\ response.body.chronotype = 0
    /\ response.body.confidence = 70
    /\ \E other \in C2_Answers :
          /\ other.status = 200
          /\ other.body.chronotype = 0
          /\ other.body.confidence = 90

\* the activity value the request at hand hands to predict_chronotype
Activity ==
    IF request.route = RateRoute THEN request.data.user_activity
    ELSE IF request.route = "/predict_chronotype" THEN request.data.activity_pattern
    ELSE JList(sample_pattern)

Inferred == result # Pending

\* whether the step env.fails names is reached by an inference on a list
StepFails(env) ==
    \/ env.fails \in {"scaler", "classifier"}
    \/ env.fails = "encoder" /\ UsesEncoder(predictor)

\* C3: chronotype inference never propagates a fault: with the models not
\* loaded, or with a failing step, predict_chronotype returns success=false
\* and label 1; with the models not loaded it invokes no collaborator.
C3_NoFaultPropagates ==
    Inferred =>
        /\ result.raised = ""
        /\ ~result.value.success => result.value.chronotype = 1
        /\ ~predictor.models_loaded =>
              /\ ~result.value.success
              /\ calls = {}
        /\ Activity.t # "list" => ~result.value.success
        /\ \A env \in Envs :
              StepFails(env) =>
                 LET o == predict_chronotype(predictor, Activity, env).result
                 IN  /\ o.raised = ""
                     /\ ~o.value.success
                     /\ o.value.chronotype = 1

C3_Witness ==
    /\ Inferred
    /\ predictor.models_loaded
    /\ "classifier" \in calls
    /\ ~result.value.success

\* a rate request that carries the three required fields was answered
C4_Carried ==
    /\ response # Idle
    /\ request.route = RateRoute
    /\ request.data.t = "object"
    /\ FirstMissing(request.data) = ""

C4_HasRate ==
    /\ response.status = 200
    /\ "adjusted_rate" \in DOMAIN response.body

\* C4 as stated: every request that carries the three required fields is
\* answered with an adjusted_rate, never with an error.
C4_AlwaysRate == C4_Carried => C4_HasRate

\* C4 amended: every request that carries the three required fields, with
\* an integer base_rate and an integer or string current_hour, is answered
\* with an adjusted_rate, whatever user_activity is, whatever the state of
\* the models and whatever the outcome of inference.
C4_RateForScalarInputs ==
    (C4_Carried /\ request.data.base_rate.t = "int"
                /\ request.data.current_hour.t \in {"int", "str"})
    => C4_HasRate

C4_Witness ==
    /\ C4_Carried
    /\ request.data.base_rate.t = "int"
    /\ request.data.user_activity = JNull
    /\ predictor.models_loaded
    /\ C4_HasRate
    /\ response.body.chronotype = 1

\* ten times the sum of samples a..b of a window whose samples are whole
\* tenths, by halves
RECURSIVE SumHalves(_, _, _)
SumHalves(w, a, b) ==
    IF a > b THEN 0
    ELSE IF a = b THEN w[a].n * (10 \div w[a].d)
    ELSE SumHalves(w, a, (a + b) \div 2) + SumHalves(w, ((a + b) \div 2) + 1, b)

\* the window reached the encoder or the fallback
C8_Handed == Inferred /\ calls \cap {"encoder", "fallback"} # {}

\* C8: for a non-empty raw pattern of n values the window handed to the
\* encoder (or to the fallback) has exactly 720 entries: the first 720
\* values if n > 720, otherwise the n values in order followed by 720-n
\* copies of their mean.
C8_WindowOf720 ==
    (C8_Handed /\ Len(Activity.items) > 0) =>
        LET p == Activity.items
            n == Len(p)
        IN  /\ Len(activity_array) = 720
            /\ \A i \in 1..720 :
                  activity_array[i] =
                      IF i <= n THEN p[i] ELSE Rat(SumHalves(p, 1, n), 10 * n)

C8_Witness ==
    /\ C8_Handed
    /\ "encoder" \in calls
    /\ Len(Activity.items) = 10
    /\ activity_array[720] = Rat(7, 5)

\* what the caller receives from a predictor that uses the learned encoder,
\* for the request at hand, under every behaviour of the collaborators
C9_LearnedAnswers ==
    LET learned == { q \in {load_models(fs) : fs \in StartUps} :
                        q.models_loaded /\ UsesEncoder(q) }
    IN  IF request.route = RateRoute
        THEN { RateHandler(q, request.data, env).response :
                   q \in learned, env \in Envs }
        ELSE { PredictHandler(q, request.data, env).response :
                   q \in learned, env \in Envs }

\* C9: when inference falls back to the first 32 raw values, the caller is
\* informed: what it receives differs from anything a prediction made with
\* the learned representation returns.
C9_FallbackReported ==
    (Inferred /\ "fallback" \in calls /\ result.value.success
        /\ request.route \in {RateRoute, "/predict_chronotype"})
    => response \notin C9_LearnedAnswers

-----------------------------------------------------------------------------
(* Claims about population generation (specification SpecPop)              *)

Generated == pop.pc = "done"

\* the number of subjects of a class in the population mapping
Realized(chronotype) ==
    Cardinality({k \in DOMAIN pop.users : pop.users[k].chronotype = chronotype})

\* C10: for totalSubjects >= 1 generation creates floor(0.25*total) early,
\* floor(0.25*total) late and total minus those two intermediate subjects;
\* the counts sum to total, the mapping holds exactly total subjects, and
\* total = 1000 gives 250, 250 and 500.
C10_ClassCounts ==
    (Generated /\ pop.n_users >= 1) =>
        LET total == pop.n_users
            quarter == CHOOSE q \in 0..total : 4 * q <= total /\ total < 4 * (q + 1)
        IN  /\ Realized("early") = quarter
            /\ Realized("late") = quarter
            /\ Realized("intermediate") = total - 2 * quarter
            /\ Realized("early") + Realized("late") + Realized("intermediate") = total
            /\ Cardinality(DOMAIN pop.users) = total
            /\ pop.metadata.chronotype_distribution =
                   [n_early |-> Realized("early"), n_late |-> Realized("late"),
                    n_intermediate |-> Realized("intermediate")]
            /\ total = 1000 =>
                  /\ Realized("early") = 250
                  /\ Realized("late") = 250
                  /\ Realized("intermediate") = 500

C10_Witness ==
    /\ Generated
    /\ pop.n_users = 7
    /\ Realized("early") = 1
    /\ Realized("intermediate") = 5

-----------------------------------------------------------------------------
(* A further claim about the rate endpoint (specification Spec)            *)

\* the inference of the request at hand returned a result flagged
\* success = false
InferenceFailed ==
    /\ result.raised = ""
    /\ ~result.value.success

\* C20: when the rate endpoint's inference does not succeed, the response
\* reports chronotype 1 named Intermediate and the adjusted rate is
\* floor(baseRate * H(hour) * 10000 / 10^8): the chronotype multiplier is
\* neutral.
C20_FailedInferenceIsIntermediate ==
    (RateAnswered /\ InferenceFailed) =>
        /\ response.body.chronotype = 1
        /\ response.body.chronotype_name = "Intermediate"
        /\ response.body.behavior_multiplier = 10000
        /\ request.data.current_hour.t = "int" =>
               response.body.adjusted_rate =
                   C1_Floor(request.data.base_rate.v,
                            C1_H(request.data.current_hour.v), 10000)

\* a step of the prediction failed at a peak hour: 12345 * 1.1 = 13579.5
C20_Witness ==
    /\ RateAnswered
    /\ InferenceFailed
    /\ result.value.error = "ValueError"
    /\ request.data.base_rate = JInt(12345)
    /\ request.data.current_hour = JInt(10)
    /\ response.body.adjusted_rate = 13579

-----------------------------------------------------------------------------
(* Further claims about population generation (specification SpecPop)      *)

\* the subjects stored so far (none before the population mapping exists)
Stored == IF pop.pc = "call" THEN <<>> ELSE pop.users

\* C11: for every population size, the realized number of subjects of each
\* class differs from ratio * total (0.25 early, 0.5 intermediate, 0.25 late)
\* by at most one subject.  Multiplied out: |4 * early - total| <= 4,
\* |4 * late - total| <= 4 and |2 * intermediate - total| <= 2.
C11_RatioWithinOne ==
    (Generated /\ pop.n_users >= 1) =>
        /\ Abs(4 * Realized("early") - pop.n_users) <= 4
        /\ Abs(4 * Realized("late") - pop.n_users) <= 4
        /\ Abs(2 * Realized("intermediate") - pop.n_users) <= 2

\* C12: a call with totalSubjects < 1 or daysPerSubject < 1 never returns a
\* population (it fails instead, before any subject is generated).
C12_RejectsBadArguments ==
    (pop.n_users < 1 \/ pop.days < 1) =>
        /\ pop.pc # "done"
        /\ DOMAIN Stored = {}

\* the ids of the stored subjects of one class
IdsOf(chronotype) ==
    {Stored[k].user_id : k \in {j \in DOMAIN Stored : Stored[j].chronotype = chronotype}}

\* the number a key's digits spell
RECURSIVE KeyValue(_)
KeyValue(key) ==
    IF Len(key) = 0 THEN 0
    ELSE 10 * KeyValue(SubSeq(key, 1, Len(key) - 1)) + key[Len(key)]

\* C13: at every point of the generation the ids handed out are exactly
\* 0..count-1, without gap or duplicate, each mapping key spells the id of
\* its subject, and the classes occupy consecutive id blocks in the order
\* early, late, intermediate; a returned population of total >= 0 subjects
\* holds the ids 0..total-1.
C13_DenseOrderedIds ==
    LET E == IdsOf("early")
        L == IdsOf("late")
        I == IdsOf("intermediate")
    IN  /\ E \cup L \cup I = 0..(Cardinality(DOMAIN Stored) - 1)
        /\ \A k \in DOMAIN Stored : KeyValue(k) = Stored[k].user_id
        /\ E = 0..(Cardinality(E) - 1)
        /\ L = Cardinality(E)..(Cardinality(E) + Cardinality(L) - 1)
        /\ I = (Cardinality(E) + Cardinality(L))..(Cardinality(DOMAIN Stored) - 1)
        /\ (Generated /\ pop.n_users >= 0) =>
               Cardinality(DOMAIN Stored) = pop.n_users

C13_Witness ==
    /\ Generated
    /\ pop.n_users = DefaultUsers
    /\ Stored[<<0, 2, 4, 9>>].chronotype = "early"
    /\ Stored[<<0, 2, 5, 0>>].chronotype = "late"
    /\ Stored[<<0, 9, 9, 9>>].chronotype = "intermediate"
    /\ Stored[<<0, 9, 9, 9>>].user_id = 999

\* C18: the draws used for a subject come from a source of its own, so the
\* data of a subject does not depend on what was generated before it: each
\* subject carries the parameters its class generator yields when nothing
\* has been drawn before it.
C18_SubjectOwnsDraws ==
    \A k \in DOMAIN Stored :
        Stored[k].parameters =
            ChronotypeGenerator(Stored[k].chronotype, pop.seed, 0)

\* lo/unit <= x <= hi/unit
Between(x, lo, hi, unit) ==
    /\ x.d > 0
    /\ lo * x.d <= x.n * unit
    /\ x.n * unit <= hi * x.d

\* C19: every subject carries a parameter triple within the declared ranges
\* of the class it is labelled with; hence tau < 24 for every early subject
\* and tau > 24 for every late subject.
C19_ParameterRanges ==
    \A k \in DOMAIN Stored :
        LET u == Stored[k]
            q == u.parameters
        IN  /\ u.chronotype = "early" =>
                   /\ Between(q.mu, 80, 150, 100)
                   /\ Between(q.tau, 2250, 2380, 100)
                   /\ Between(q.noise_level, 5, 12, 100)
                   /\ q.tau.n < 24 * q.tau.d
            /\ u.chronotype = "late" =>
                   /\ Between(q.mu, 120, 250, 100)
                   /\ Between(q.tau, 2420, 2550, 100)
                   /\ Between(q.noise_level, 8, 18, 100)
                   /\ q.tau.n > 24 * q.tau.d
            /\ u.chronotype = "intermediate" =>
                   /\ Between(q.mu, 90, 180, 100)
                   /\ Between(q.tau, 2380, 2420, 100)
                   /\ Between(q.noise_level, 6, 15, 100)

\* a returned population in which an early, a late and an intermediate
\* subject carry periods inside their ranges
C19_Witness ==
    /\ Generated
    /\ pop.n_users = 8
    /\ \E e, l, m \in DOMAIN Stored :
           /\ Stored[e].chronotype = "early"
           /\ Stored[l].chronotype = "late"
           /\ Stored[m].chronotype = "intermediate"
           /\ RLess(Rat(225, 10), Stored[e].parameters.tau)
           /\ RLess(Rat(242, 10), Stored[l].parameters.tau)
           /\ RLess(Rat(238, 10), Stored[m].parameters.tau)

-----------------------------------------------------------------------------
(* Claims about the behavioural transforms (specification SpecEnh)         *)

Copied == user_data # Idle

DerivedKeys ==
    {"activity_level_with_social_jetlag", "activity_level_with_stress",
     "activity_level_with_seasonal", "activity_level_with_jetlag"}

\* the derived signals attached to the subject so far
Attached == IF Copied THEN DerivedKeys \cap DOMAIN user_data ELSE {}

\* 0.05 <= x <= 1.0
InRange(x) == x.d > 0 /\ x.d <= 20 * x.n /\ x.n <= x.d

\* C14: every sample of the base signal and of each derived signal of a
\* subject lies in [0.05, 1.0].
C14_SamplesInRange ==
    Copied =>
        \A key \in {"activity_level"} \cup Attached :
            \A p \in 1..Len(user_data[key]) : InRange(user_data[key][p])

\* all four signals are attached, and stress and jetlag each drove a sample
\* onto a bound of the range
C14_Witness ==
    /\ Attached = DerivedKeys
    /\ \E p \in 1..Len(user_data.activity_level) :
           /\ user_data.activity_level_with_stress[p] = ActivityMax
           /\ user_data.activity_level[p] # ActivityMax
    /\ \E p \in 1..Len(user_data.activity_level) :
           /\ user_data.activity_level_with_jetlag[p] = ActivityMin
           /\ user_data.activity_level[p] # ActivityMin

\* C15: for a base signal of any length, each of the four transforms
\* completes and yields a derived signal of as many samples as the base.
C15_LengthPreserved ==
    /\ raised = ""
    /\ \A key \in Attached : Len(user_data[key]) = Len(user_data.activity_level)

\* the dict a transform returns for the subject as it was copied
Alone(r) == r.value

\* C16: the transforms are independent.  Whatever was applied before, the
\* base signal, the hour indices and the label are those of the subject as
\* it was copied, and each derived signal and event log is the one its
\* transform yields on that subject alone; so every order of application
\* ends with the same signals.
C16_TransformsIndependent ==
    Copied =>
        /\ user_data.activity_level = Subject(draws).activity_level
        /\ user_data.time_hours = Subject(draws).time_hours
        /\ user_data.chronotype = Subject(draws).chronotype
        /\ DOMAIN user_data \subseteq
               DOMAIN Subject(draws) \cup DerivedKeys
                   \cup {"stress_events", "travel_events"}
        /\ "activity_level_with_social_jetlag" \in Attached =>
               user_data.activity_level_with_social_jetlag =
                   Alone(add_social_jetlag(Subject(draws), draws))
                       .activity_level_with_social_jetlag
        /\ "activity_level_with_stress" \in Attached =>
               /\ user_data.activity_level_with_stress =
                      Alone(add_stress_patterns(Subject(draws), draws))
                          .activity_level_with_stress
               /\ user_data.stress_events =
                      Alone(add_stress_patterns(Subject(draws), draws)).stress_events
        /\ "activity_level_with_seasonal" \in Attached =>
               user_data.activity_level_with_seasonal =
                   Alone(add_seasonal_variation(Subject(draws), draws))
                       .activity_level_with_seasonal
        /\ "activity_level_with_jetlag" \in Attached =>
               /\ user_data.activity_level_with_jetlag =
                      Alone(add_travel_jetlag(Subject(draws), draws, draws.n_trips))
                          .activity_level_with_jetlag
               /\ user_data.travel_events =
                      Alone(add_travel_jetlag(Subject(draws), draws, draws.n_trips))
                          .travel_events

\* all four transforms were applied to a subject each of them changes
C16_Witness ==
    /\ Attached = DerivedKeys
    /\ Len(user_data.travel_events) = 2
    /\ Len(user_data.stress_events) = 1
    /\ \A key \in DerivedKeys : user_data[key] # user_data.activity_level
    /\ user_data.activity_level_with_stress # user_data.activity_level_with_jetlag

\* C17: TravelJetlag never raises; when there is no valid trip-start day
\* (14 days or fewer, or no trip asked for) it completes with an empty event
\* log and a derived signal equal to the base signal.
C17_TravelNeverRaises ==
    /\ raised = ""
    /\ ("activity_level_with_jetlag" \in Attached
           /\ (Len(user_data.time_hours) \div 24 <= 14 \/ draws.n_trips = 0))
       => /\ user_data.travel_events = <<>>
          /\ user_data.activity_level_with_jetlag = user_data.activity_level

\* the subject's number of whole days
TotalDays == Len(user_data.activity_level) \div 24

\* the days np.random.choice returned to add_travel_jetlag (trip_days)
TripDays == [j \in 1..Len(user_data.travel_events) |-> user_data.travel_events[j].day]

\* s has no element twice
Distinct(s) == \A i, j \in 1..Len(s) : s[i] = s[j] => i = j

\* C22: on a subject with more than 7 days TravelJetlag selects exactly
\* min(nTrips, totalDays div 10) trips, with pairwise distinct start days in
\* [7, totalDays - 7), a shift in {-8, -6, -3, 3, 6, 8} and a recovery of 3
\* to 7 days each, logs one event per trip, and modifies only hours inside
\* the signal that lie in a day from a start day to start day + recovery - 1.
C22_TripSelection ==
    (Copied /\ Len(user_data.time_hours) \div 24 > 7)
    => /\ raised = ""
       /\ "activity_level_with_jetlag" \in Attached
          => /\ Len(user_data.travel_events) =
                    Min(draws.n_trips, (Len(user_data.time_hours) \div 24) \div 10)
             /\ Distinct(TripDays)
             /\ \A j \in 1..Len(user_data.travel_events) :
                    /\ 7 <= user_data.travel_events[j].day
                    /\ user_data.travel_events[j].day
                           < Len(user_data.time_hours) \div 24 - 7
                    /\ user_data.travel_events[j].timezone_shift
                           \in {-8, -6, -3, 3, 6, 8}
                    /\ user_data.travel_events[j].recovery_days \in 3..7
             /\ Len(user_data.activity_level_with_jetlag)
                    = Len(user_data.activity_level)
             /\ \A p \in 1..Len(user_data.activity_level) :
                    user_data.activity_level_with_jetlag[p]
                        # user_data.activity_level[p]
                    => \E j \in 1..Len(user_data.travel_events) :
                           /\ user_data.travel_events[j].day <= (p - 1) \div 24
                           /\ (p - 1) \div 24
                                  < user_data.travel_events[j].day
                                    + user_data.travel_events[j].recovery_days

\* StressInjection was applied
Stressed == "activity_level_with_stress" \in Attached

\* the stress days are pairwise distinct days of the signal, the event log
\* lists exactly the days np.random.choice selected, and only samples
\* inside a selected day differ from the base
C23_DaysAndSamples ==
    /\ Distinct(user_data.stress_events)
    /\ \A j \in 1..Len(user_data.stress_events) :
           user_data.stress_events[j] \in 0..(TotalDays - 1)
    /\ user_data.stress_events
           = NpChoice(TotalDays, Len(user_data.stress_events),
                      draws.stress_first).value
    /\ Len(user_data.activity_level_with_stress) = Len(user_data.activity_level)
    /\ \A p \in 1..Len(user_data.activity_level) :
           user_data.activity_level_with_stress[p] # user_data.activity_level[p]
           => \E j \in 1..Len(user_data.stress_events) :
                  (p - 1) \div 24 = user_data.stress_events[j]

Enhancing == heap # Idle

\* C29: enhance_population_data leaves the population it was given
\* unchanged: the given population's mapping holds the records it was given,
\* and the enhanced records exist only in the population returned.
C29_InputUnchanged ==
    Enhancing =>
        /\ heap.population_data = GivenPopulation
        /\ heap.objects[heap.population_data.users] = GivenObjects(draws)[1]
        /\ heap.objects[heap.population_data.metadata] = GivenObjects(draws)[2]
        /\ heap.pc = "returned" =>
               heap.objects[heap.enhanced_data.users][UserKey(0)] = user_data

-----------------------------------------------------------------------------
(* Claims about the social jetlag loop (specification SpecSocial)          *)

\* add_social_jetlag has returned
SocialDone == loop # Idle /\ loop.pc = "done"

\* the hour is a weekend hour as the claim words it
WeekendHour(hour) ==
    LET day_of_week == (hour \div 24) % 7
        hour_of_day == hour % 24
    IN  day_of_week = 5 \/ day_of_week = 6 \/ (day_of_week = 4 /\ hour_of_day >= 18)

\* C24: SocialJetlag changes only weekend samples (day-of-week 5 or 6, or
\* day-of-week 4 at hour-of-day 18 or later), each replaced by the base
\* sample k positions ahead for its drawn shift k in 1..3; every other
\* sample is copied, and a weekend sample whose position plus k lies
\* outside the sequence keeps its value.  The result is the signal
\* SocialJetlagSignal gives in one step.
C24_WeekendSamplesShifted ==
    SocialDone =>
        /\ Len(user_data.activity_level_with_social_jetlag)
               = Len(user_data.activity_level)
        /\ \A p \in 1..Len(user_data.activity_level) :
               /\ Tape(draws.shifts, p - 1) \in 1..3
               /\ user_data.activity_level_with_social_jetlag[p] =
                      IF /\ WeekendHour(user_data.time_hours[p])
                         /\ p + Tape(draws.shifts, p - 1)
                                <= Len(user_data.activity_level)
                      THEN user_data.activity_level[p + Tape(draws.shifts, p - 1)]
                      ELSE user_data.activity_level[p]
        /\ user_data.activity_level_with_social_jetlag
               = SocialJetlagSignal(user_data.activity_level,
                                    user_data.time_hours, draws.shifts)

\* a signal that ends on a Sunday: a Friday-evening sample was replaced by
\* the sample 3 ahead, a Friday-afternoon sample was copied, and the last
\* sample, whose shift points outside the sequence, kept its value
C24_Witness ==
    /\ SocialDone
    /\ Len(user_data.activity_level) = 24 * 7
    /\ Tape(draws.shifts, 24 * 4 + 18) = 3
    /\ user_data.activity_level_with_social_jetlag[24 * 4 + 19]
           = user_data.activity_level[24 * 4 + 22]
    /\ user_data.activity_level_with_social_jetlag[24 * 4 + 19]
           # user_data.activity_level[24 * 4 + 19]
    /\ user_data.activity_level_with_social_jetlag[24 * 4 + 18]
           = user_data.activity_level[24 * 4 + 18]
    /\ user_data.activity_level_with_social_jetlag[24 * 7]
           = user_data.activity_level[24 * 7]

\* C30: while the loop of SocialJetlag runs and when it has finished, every
\* sample of the array equals the base sample at the same position or 1 to
\* 3 positions later; no position from the loop index on has been written,
\* so the sample an iteration reads, ahead of its index, is never one an
\* earlier iteration overwrote.
C30_ReadsOnlyUnwritten ==
    (loop # Idle) =>
        /\ Len(loop.activity) = Len(user_data.activity_level)
        /\ \A p \in 1..Len(loop.activity) :
               \/ loop.activity[p] = user_data.activity_level[p]
               \/ \E k \in 1..3 :
                      /\ p + k <= Len(loop.activity)
                      /\ loop.activity[p] = user_data.activity_level[p + k]
        /\ \A p \in (loop.i + 1)..Len(loop.activity) :
               loop.activity[p] = user_data.activity_level[p]
        /\ loop.i + Tape(draws.shifts, loop.i) > loop.i

\* the loop is inside the weekend: earlier samples have been replaced and
\* the sample the next iteration reads is still the base sample
C30_Witness ==
    /\ loop # Idle
    /\ loop.pc = "for"
    /\ loop.i = 24 * 5
    /\ WeekendHour(user_data.time_hours[loop.i + 1])
    /\ loop.i + Tape(draws.shifts, loop.i) < Len(loop.activity)
    /\ loop.activity[loop.i] # user_data.activity_level[loop.i]
    /\ loop.activity[loop.i + Tape(draws.shifts, loop.i) + 1]
           = user_data.activity_level[loop.i + Tape(draws.shifts, loop.i) + 1]

-----------------------------------------------------------------------------
(* Claims about the seasonal factor (specification SpecSeason)             *)

\* the sample has been modulated
Modulated == user_data # Idle

\* the amplitude the claim gives for a label
C25_Amplitude(chronotype) ==
    IF chronotype = "early" THEN Rat(5, 100)
    ELSE IF chronotype = "intermediate" THEN Rat(10, 100)
    ELSE Rat(20, 100)

\* x <= y
RLessEq(x, y) == ~RLess(y, x)

\* C25: SeasonalModulation multiplies each sample by
\* 1 + amplitude * cos(2 * pi * (day - 80) / 365), day = (hour div 24) mod
\* 365, with amplitude 0.05, 0.10 and 0.20 for early, intermediate and late,
\* and this factor has its trough, its smallest value over the year and
\* below 1, near day 80.
C25_TroughNearDay80 ==
    Modulated =>
        /\ user_data.seasonal_factor =
               RAdd(Int2Rat(1),
                    RMul(C25_Amplitude(draws.chronotype),
                         SeasonCosine((draws.hour \div 24) % 365)))
        /\ user_data.activity =
               NpClip(RMul(draws.sample, user_data.seasonal_factor),
                      ActivityMin, ActivityMax)
        /\ \E day \in 70..90 :
               /\ RLess(SeasonalFactor(C25_Amplitude(draws.chronotype), 24 * day),
                        Int2Rat(1))
               /\ RLessEq(SeasonalFactor(C25_Amplitude(draws.chronotype), 24 * day),
                          user_data.seasonal_factor)

-----------------------------------------------------------------------------
(* Claims about the hourly loop of the oscillation (specification SpecOsc) *)

\* the hourly loop has started / the oscillation has been returned
InHourlyLoop == loop # Idle
OscReturned == loop # Idle /\ loop.pc = "done"

\* C26: for every days >= 1, each hour bucket [h, h + 1), 0 <= h < days * 24,
\* contains at least 4 of the integration time points.
C26_FourPointsPerHour ==
    InHourlyLoop => \A h \in 1..Len(loop.points) : loop.points[h] >= 4

\* C27: for every days >= 1 the base signal has exactly days * 24 hourly
\* samples, paired with the hour indices 0 .. days * 24 - 1 in increasing
\* order: no hour bucket of the integration grid is empty, and the grid
\* point at t = days * 24 falls in no bucket.  The dict returned is the one
\* generate_circadian_oscillation gives in one step.
C27_OneSamplePerHour ==
    /\ InHourlyLoop =>
           /\ \A h \in 1..Len(loop.points) : loop.points[h] >= 1
           /\ loop.hourly_times = [h \in 1..loop.hour |-> h - 1]
           /\ Len(loop.hourly_activity) = loop.hour
           /\ draws.days * 24 * 4 - 1
                  \notin HourIndices(loop.hour - 1, draws.days * 24,
                                     draws.days * 24 * 4)
    /\ OscReturned =>
           /\ draws.days >= 1
           /\ Len(user_data.activity_level) = draws.days * 24
           /\ user_data.time_hours = [h \in 1..(draws.days * 24) |-> h - 1]
           /\ user_data =
                  generate_circadian_oscillation(
                      draws.days, ChronotypeGenerator(draws.chronotype, 0, 0),
                      draws.phase, draws.noise).value

\* the default 30 days were simulated and returned: 720 hourly samples, the
\* last hour's bucket holding fewer grid points than the first
C27_Witness ==
    /\ OscReturned
    /\ draws.days = DefaultDays
    /\ Len(user_data.activity_level) = 720
    /\ user_data.time_hours[720] = 719
    /\ loop.points[720] < loop.points[1]

-----------------------------------------------------------------------------
(* Claims about training and serving (specification SpecFit)               *)

\* the server handed a feature vector to the scaler
Scaled == result # Pending /\ "scaler" \in calls

\* C28: the width of the feature vector serving passes to the scaler equals
\* the width the scaler was fitted on, both when the encoder is available
\* in training and serving and when it is unavailable in both.
C28_WidthParity ==
    (Scaled /\ (draws.trained_with_encoder <=> UsesEncoder(predictor)))
    => ServingWidth(predictor) = train_features.n_features_in

-----------------------------------------------------------------------------
(* Claims about concurrent inference (specification SpecConc)              *)

\* thread t has answered its request
Answered(t) == t \in DOMAIN workers /\ workers[t].pc = "done"

\* what thread t's handler yields when it runs alone on the bundle
RunAlone(t) == RateHandler(predictor, workers[t].data, workers[t].env)

\* C21: after construction the model bundle is read-only: no statement of
\* an inference or of the rate computation changes it, and under every
\* interleaving of the threads' statements each call answers, builds and
\* invokes exactly what it does when it runs alone.
C21_BundleReadOnly ==
    /\ [][predictor' = predictor]_vars
    /\ [](\A t \in Threads :
            Answered(t) =>
                /\ workers[t].response = RunAlone(t).response
                /\ Outcome(workers[t].result, workers[t].activity_array,
                           workers[t].calls) = RunAlone(t).inference)

\* one thread has answered with a rate from the learned encoder while the
\* other, serving a different body, is still inside its inference after
\* its encoder call failed
C21_Witness ==
    /\ Answered(1)
    /\ workers[1].response.status = 200
    /\ workers[1].result.value.success
    /\ "encoder" \in workers[1].calls
    /\ 2 \in DOMAIN workers
    /\ workers[2].pc = "reply"
    /\ workers[2].env.fails = "encoder"
    /\ workers[2].result.value.error = "RuntimeError"
    /\ workers[2].data # workers[1].data

=============================================================================
